---- MODULE Spec2Model ----
(***************************************************************************)
(* A model of the satire SAT solver: the formula types, the CDCL engine    *)
(* (clause tracker, First-UIP conflict analyzer, VSIDS heuristic, main     *)
(* loop), the recursive DPLL engine and the DIMACS parser.                 *)
(*                                                                         *)
(* Conventions.  Indices are zero-based as in the Rust source; a Vec is a  *)
(* sequence and element i of the Vec is At(vec, i).  Option<T> is a        *)
(* sequence of length at most one: None is <<>> and Some(x) is <<x>>.      *)
(* A Rust panic is recorded in a field / variable named panicked; nothing  *)
(* runs after it.                                                          *)
(***************************************************************************)
EXTENDS Integers, Sequences, FiniteSets, TLC

VARIABLES
    pc,              \* position of the driver
    formula,         \* the Cnf given to the solvers
    tracker,         \* cdcl: Tracker
    decisions,       \* cdcl: CdclSolver.decisions
    decision_stack,  \* cdcl: CdclSolver.decision_stack
    frame,           \* cdcl: CdclSolver.frame
    score_heuristic, \* cdcl: VsidsScoring
    cdcl_result,     \* what CdclSolver::solve returned
    dpll,            \* dpll: DpllSolver
    dpll_frames,     \* dpll: the call stack of solve_inner (each frame also keeps
                     \* the solver as it was when that call was entered)
    dpll_result,     \* what DpllSolver::solve returned
    overflow_checks, \* the build: Some(TRUE) debug, Some(FALSE) release, None
                     \* while nothing that ran depended on it
    model,           \* what the last call of Model::new returned
    parser           \* parse_file: the lines left to read, what was read so
                     \* far and what it returned

vars == <<pc, formula, tracker, decisions, decision_stack, frame,
          score_heuristic, cdcl_result, dpll, dpll_frames, dpll_result,
          overflow_checks, model, parser>>

----------------------------------------------------------------------------
(* Bounds of the model. *)

NumVars == 3
MaxLen == 3
MaxClauses == 2
DupLen == 2
NumNonces == 2
TrackerVars == 2
TrackerLen == 2
TrackerClauses == 2

----------------------------------------------------------------------------
(* Option and Vec helpers. *)

None == <<>>
Some(x) == <<x>>
IsSome(o) == o # <<>>
Unwrap(o) == o[1]

At(vec, i) == vec[i + 1]
SetAt(vec, i, x) == [vec EXCEPT ![i + 1] = x]
Last(vec) == vec[Len(vec)]
Front(vec) == SubSeq(vec, 1, Len(vec) - 1)

\* Vec::swap_remove: the last element takes the place of the removed one.
SwapRemove(vec, i) ==
    IF i + 1 = Len(vec) THEN Front(vec)
    ELSE Front(SetAt(vec, i, Last(vec)))

Min(S) == CHOOSE x \in S : \A y \in S : x <= y
Max(S) == CHOOSE x \in S : \A y \in S : x >= y

----------------------------------------------------------------------------
(* Formula types (formula.rs). *)

Literal_new(variable, positive) == [variable |-> variable, positive |-> positive]

Not(literal) == [literal EXCEPT !.positive = ~literal.positive]

Variables(n) == 0..(n - 1)

Literals(n) == {Literal_new(v, b) : v \in Variables(n), b \in BOOLEAN}

\* Literal::value under a total assignment.
value(literal, assignments) ==
    IF literal.positive THEN assignments[literal.variable]
    ELSE ~assignments[literal.variable]

\* Literal::partial_value under a partial assignment.
partial_value(literal, assignments) ==
    IF IsSome(assignments[literal.variable])
    THEN Some(IF literal.positive THEN Unwrap(assignments[literal.variable])
              ELSE ~Unwrap(assignments[literal.variable]))
    ELSE None

Cnf_new(num_variables) == [num_variables |-> num_variables, clauses |-> <<>>]

\* Cnf::add_clause accepts a clause only if every literal is in range.
Cnf_add_clause_ok(cnf, clause) ==
    \A i \in 1..Len(clause) : clause[i].variable < cnf.num_variables

Cnf_add_clause(cnf, clause) == [cnf EXCEPT !.clauses = Append(@, clause)]

ClauseSatisfied(clause, assignment) ==
    \E i \in 1..Len(clause) : value(clause[i], assignment)

\* Model::new asserting that some clause is satisfied, not every clause.
Model_new_ok_some(cnf, assignment) ==
    /\ DOMAIN assignment = 0..(cnf.num_variables - 1)
    /\ \/ cnf.clauses = <<>>
       \/ \E c \in 1..Len(cnf.clauses) : ClauseSatisfied(cnf.clauses[c], assignment)

\* The two assertions of Model::new.
Model_new_ok(cnf, assignment) ==
    /\ DOMAIN assignment = 0..(cnf.num_variables - 1)
    /\ \A c \in 1..Len(cnf.clauses) : ClauseSatisfied(cnf.clauses[c], assignment)

\* Model::new: the Model, or the panic of a failed assertion.
Model_new(cnf, assignment) ==
    IF Model_new_ok(cnf, assignment)
    THEN <<"Model", [formula |-> cnf, assignment |-> assignment]>>
    ELSE <<"Panic", "Model::new">>

----------------------------------------------------------------------------
(* Clause tracker (solver/cdcl/tracker.rs). *)

\* from_count that reports Falsified only for a clause that has literals.
from_count_nonempty(total, satisfied, unsatisfied) ==
    IF unsatisfied = total /\ total > 0 THEN "Falsified"
    ELSE IF satisfied > 0 THEN "Satisfied"
    ELSE IF unsatisfied + 1 = total THEN "Unit"
    ELSE "Unresolved"

\* from_count that never reports Unit.
from_count_no_unit(total, satisfied, unsatisfied) ==
    IF unsatisfied = total THEN "Falsified"
    ELSE IF satisfied > 0 THEN "Satisfied"
    ELSE "Unresolved"

\* from_count with satisfied >= 0 in place of satisfied > 0.
from_count_ge(total, satisfied, unsatisfied) ==
    IF unsatisfied = total THEN "Falsified"
    ELSE IF satisfied >= 0 THEN "Satisfied"
    ELSE IF unsatisfied + 1 = total THEN "Unit"
    ELSE "Unresolved"

from_count(total, satisfied, unsatisfied) ==
    IF unsatisfied = total THEN "Falsified"
    ELSE IF satisfied > 0 THEN "Satisfied"
    ELSE IF unsatisfied + 1 = total THEN "Unit"
    ELSE "Unresolved"

ClauseStat_new(total, satisfied, unsatisfied) ==
    [total |-> total, satisfied |-> satisfied, unsatisfied |-> unsatisfied,
     status |-> from_count(total, satisfied, unsatisfied)]

increment_satisfied(stat) ==
    [stat EXCEPT !.satisfied = @ + 1,
                 !.status = from_count(stat.total, stat.satisfied + 1, stat.unsatisfied)]

increment_unsatisfied(stat) ==
    [stat EXCEPT !.unsatisfied = @ + 1,
                 !.status = from_count(stat.total, stat.satisfied, stat.unsatisfied + 1)]

decrement_satisfied(stat) ==
    [stat EXCEPT !.satisfied = @ - 1,
                 !.status = from_count(stat.total, stat.satisfied - 1, stat.unsatisfied)]

\* decrement_unsatisfied that leaves the status as it was.
decrement_unsatisfied_stale(stat) == [stat EXCEPT !.unsatisfied = @ - 1]

decrement_unsatisfied(stat) ==
    [stat EXCEPT !.unsatisfied = @ - 1,
                 !.status = from_count(stat.total, stat.satisfied, stat.unsatisfied - 1)]

ClauseStateCache_new ==
    [Falsified |-> {}, Satisfied |-> {}, Unit |-> {}, Unresolved |-> {}]

\* Both assertions of handle_change hold.
handle_change_ok(cache, old, new, idx) ==
    old = new \/ (idx \in cache[old] /\ idx \notin cache[new])

\* handle_change that inserts into the new bucket without leaving the old one.
handle_change_keep(cache, old, new, idx) ==
    IF old = new THEN cache ELSE [cache EXCEPT ![new] = @ \cup {idx}]

handle_change(cache, old, new, idx) ==
    IF old = new THEN cache
    ELSE [cache EXCEPT ![old] = @ \ {idx}, ![new] = @ \cup {idx}]

WatchElement_new(clause_idx, clause_col) ==
    [clause_idx |-> clause_idx, clause_col |-> clause_col]

Watch_new(num_variables) ==
    [positive |-> [v \in 0..(num_variables - 1) |-> <<>>],
     negative |-> [v \in 0..(num_variables - 1) |-> <<>>]]

\* Index<Literal> for Watch.
Row(watch, literal) ==
    IF literal.positive THEN watch.positive[literal.variable]
    ELSE watch.negative[literal.variable]

\* IndexMut<Literal> for Watch.
SetRow(watch, literal, row) ==
    IF literal.positive
    THEN [watch EXCEPT !.positive[literal.variable] = row]
    ELSE [watch EXCEPT !.negative[literal.variable] = row]

Tracker_new(num_variables) ==
    [num_variables |-> num_variables,
     assignments |-> [v \in 0..(num_variables - 1) |-> None],
     assigned_count |-> 0,
     watch |-> Watch_new(num_variables),
     clauses |-> <<>>,
     clause_cache |-> ClauseStateCache_new,
     panicked |-> ""]

\* A panic inside the tracker: panicked names the assertion or unwrap that failed
\* ("" while none has).
Panic(t, why) == [t EXCEPT !.panicked = why]

\* add_clause counting a literal that is already false as satisfied.
add_clause_step_swapped(acc, assignments, clause_index, literal) ==
    LET pv == partial_value(literal, assignments)
        row == Row(acc.watch, literal)
    IN  IF IsSome(pv)
        THEN [acc EXCEPT !.satisfied = @ + 1,
                         !.watch = SetRow(@, literal,
                                     Append(row, WatchElement_new(clause_index, None)))]
        ELSE [acc EXCEPT !.watch = SetRow(@, literal,
                                     Append(row, WatchElement_new(clause_index,
                                                                  Some(Len(acc.literals))))),
                         !.literals = Append(@, [literal |-> literal,
                                                 variable_col |-> Len(row)])]

\* One iteration of the loop of Tracker::add_clause over the clause's literals.
\* acc holds the loop's locals: watch, satisfied, unsatisfied, literals.
add_clause_step(acc, assignments, clause_index, literal) ==
    LET pv == partial_value(literal, assignments)
        row == Row(acc.watch, literal)
    IN  IF pv = Some(TRUE)
        THEN [acc EXCEPT !.satisfied = @ + 1,
                         !.watch = SetRow(@, literal,
                                     Append(row, WatchElement_new(clause_index, None)))]
        ELSE IF pv = Some(FALSE)
        THEN [acc EXCEPT !.unsatisfied = @ + 1,
                         !.watch = SetRow(@, literal,
                                     Append(row, WatchElement_new(clause_index, None)))]
        ELSE LET new_clause_col == Len(acc.literals)
                 variable_col == Len(row)
             IN  [acc EXCEPT !.watch = SetRow(@, literal,
                                         Append(row, WatchElement_new(clause_index,
                                                                      Some(new_clause_col)))),
                             !.literals = Append(@, [literal |-> literal,
                                                     variable_col |-> variable_col])]

RECURSIVE add_clause_loop(_, _, _, _, _)
add_clause_loop(acc, assignments, clause_index, clause, i) ==
    IF i > Len(clause) THEN acc
    ELSE add_clause_loop(add_clause_step(acc, assignments, clause_index, clause[i]),
                         assignments, clause_index, clause, i + 1)

\* add_clause that puts the new clause in front of the clause list.
add_clause_front(t, clause) ==
    LET clause_index == Len(t.clauses)
        acc == add_clause_loop([watch |-> t.watch, satisfied |-> 0, unsatisfied |-> 0,
                                literals |-> <<>>],
                               t.assignments, clause_index, clause, 1)
        stat == ClauseStat_new(Len(clause), acc.satisfied, acc.unsatisfied)
    IN  [t EXCEPT !.watch = acc.watch,
                  !.clause_cache[stat.status] = @ \cup {clause_index},
                  !.clauses = <<[stat |-> stat, original |-> clause,
                                 literals |-> acc.literals]>> \o @]

\* Tracker::add_clause.
add_clause(t, clause) ==
    LET clause_index == Len(t.clauses)
        acc == add_clause_loop([watch |-> t.watch, satisfied |-> 0, unsatisfied |-> 0,
                                literals |-> <<>>],
                               t.assignments, clause_index, clause, 1)
        stat == ClauseStat_new(Len(clause), acc.satisfied, acc.unsatisfied)
    IN  [t EXCEPT !.watch = acc.watch,
                  !.clause_cache[stat.status] = @ \cup {clause_index},
                  !.clauses = Append(@, [stat |-> stat, original |-> clause,
                                         literals |-> acc.literals])]

RECURSIVE from_cnf_loop(_, _, _)
from_cnf_loop(t, clauses, i) ==
    IF i > Len(clauses) THEN t
    ELSE from_cnf_loop(add_clause(t, clauses[i]), clauses, i + 1)

\* Tracker::from_cnf.
from_cnf(cnf) == from_cnf_loop(Tracker_new(cnf.num_variables), cnf.clauses, 1)

\* fixup_clause that leaves the back-pointer of the moved literal as it was.
fixup_clause_stale(watch, literals, col) == watch

\* Tracker::fixup_clause: the literal now at column col gets its back-pointer set.
fixup_clause(watch, literals, col) ==
    IF col < Len(literals)
    THEN LET moved == At(literals, col)
             row == Row(watch, moved.literal)
         IN  SetRow(watch, moved.literal,
                    SetAt(row, moved.variable_col,
                          [At(row, moved.variable_col) EXCEPT !.clause_col = Some(col)]))
    ELSE watch

\* One iteration of a loop of Tracker::set_literal: watched is the literal whose
\* row is walked (the literal set, or its negation), i the position in the row.
set_literal_step(t, watched, i, made_true) ==
    LET row == Row(t.watch, watched)
        w == row[i]
        idx == w.clause_idx
        clause == At(t.clauses, idx)
        stat == IF made_true THEN increment_satisfied(clause.stat)
                ELSE increment_unsatisfied(clause.stat)
        taken == SetRow(t.watch, watched, [row EXCEPT ![i].clause_col = None])
        col == Unwrap(w.clause_col)
        literals == SwapRemove(clause.literals, col)
    IN  IF ~handle_change_ok(t.clause_cache, clause.stat.status, stat.status, idx)
        THEN Panic([t EXCEPT !.clauses = SetAt(@, idx, [clause EXCEPT !.stat = stat])],
                   "handle_change")
        ELSE IF ~IsSome(w.clause_col) \/ col >= Len(clause.literals)
        THEN Panic([t EXCEPT !.clauses = SetAt(@, idx, [clause EXCEPT !.stat = stat]),
                             !.clause_cache = handle_change(@, clause.stat.status,
                                                            stat.status, idx)],
                   "clause_col")
        ELSE [t EXCEPT !.clauses = SetAt(@, idx, [clause EXCEPT !.stat = stat,
                                                                !.literals = literals]),
                       !.clause_cache = handle_change(@, clause.stat.status,
                                                      stat.status, idx),
                       !.watch = fixup_clause(taken, literals, col)]

RECURSIVE set_literal_loop(_, _, _, _)
set_literal_loop(t, watched, i, made_true) ==
    IF t.panicked # "" \/ i > Len(Row(t.watch, watched)) THEN t
    ELSE set_literal_loop(set_literal_step(t, watched, i, made_true),
                          watched, i + 1, made_true)

\* set_literal checking the old value only after both loops have run.
set_literal_late(t, literal) ==
    LET old_value == t.assignments[literal.variable]
        replaced == [t EXCEPT !.assignments[literal.variable] = Some(literal.positive)]
        done == set_literal_loop(
                    set_literal_loop([replaced EXCEPT !.assigned_count = @ + 1],
                                     literal, 1, TRUE),
                    Not(literal), 1, FALSE)
    IN  IF IsSome(old_value) THEN Panic(done, "set_literal") ELSE done

\* Tracker::set_literal.  The assignment is replaced before the assertion.
set_literal(t, literal) ==
    LET old_value == t.assignments[literal.variable]
        replaced == [t EXCEPT !.assignments[literal.variable] = Some(literal.positive)]
    IN  IF IsSome(old_value) THEN Panic(replaced, "set_literal")
        ELSE set_literal_loop(
                 set_literal_loop([replaced EXCEPT !.assigned_count = @ + 1],
                                  literal, 1, TRUE),
                 Not(literal), 1, FALSE)

\* One iteration of a loop of Tracker::unset.
unset_step(t, watched, i, was_true) ==
    LET row == Row(t.watch, watched)
        w == row[i]
        idx == w.clause_idx
        clause == At(t.clauses, idx)
        underflow == IF was_true THEN clause.stat.satisfied = 0
                     ELSE clause.stat.unsatisfied = 0
        stat == IF was_true THEN decrement_satisfied(clause.stat)
                ELSE decrement_unsatisfied(clause.stat)
        clause_col == Len(clause.literals)
    IN  IF underflow THEN Panic(t, "underflow")
        ELSE IF ~handle_change_ok(t.clause_cache, clause.stat.status, stat.status, idx)
        THEN Panic([t EXCEPT !.clauses = SetAt(@, idx, [clause EXCEPT !.stat = stat])],
                   "handle_change")
        ELSE [t EXCEPT !.clauses = SetAt(@, idx,
                           [clause EXCEPT !.stat = stat,
                                          !.literals = Append(@, [literal |-> watched,
                                                                  variable_col |-> i - 1])]),
                       !.clause_cache = handle_change(@, clause.stat.status,
                                                      stat.status, idx),
                       !.watch = SetRow(@, watched,
                                        [row EXCEPT ![i].clause_col = Some(clause_col)])]

RECURSIVE unset_loop(_, _, _, _)
unset_loop(t, watched, i, was_true) ==
    IF t.panicked # "" \/ i > Len(Row(t.watch, watched)) THEN t
    ELSE unset_loop(unset_step(t, watched, i, was_true), watched, i + 1, was_true)

\* Tracker::unset.  take() of None leaves the assignment as it was.
unset(t, variable) ==
    LET old_value == t.assignments[variable]
        literal == Literal_new(variable, Unwrap(old_value))
    IN  IF ~IsSome(old_value) THEN Panic(t, "unset")
        ELSE unset_loop(
                 unset_loop([t EXCEPT !.assignments[variable] = None,
                                      !.assigned_count = @ - 1],
                            literal, 1, TRUE),
                 Not(literal), 1, FALSE)

original_clause(t, index) == At(t.clauses, index).original

\* The assertion of Tracker::get_unit_clause_literal.
get_unit_clause_literal_ok(t, index) == Len(At(t.clauses, index).literals) = 1

get_unit_clause_literal(t, index) == At(t.clauses, index).literals[1].literal

falsified_clauses(t) == t.clause_cache.Falsified
satisfied_clauses(t) == t.clause_cache.Satisfied
unit_clauses(t) == t.clause_cache.Unit
num_clauses(t) == Len(t.clauses)

literal_occurrence(t, literal) == Len(Row(t.watch, literal))

variable_occurrence(t, variable) ==
    literal_occurrence(t, Literal_new(variable, TRUE))
        + literal_occurrence(t, Literal_new(variable, FALSE))

----------------------------------------------------------------------------
(* VSIDS heuristic (solver/cdcl/vsids.rs).                                  *)
(*                                                                         *)
(* The f64 scores are kept as exact rationals over a common denominator:   *)
(* after d calls of decay every stored number is the value times 19^d.     *)
(* Dividing current_rate by DECAY_RATE = 0.95 = 19/20 therefore multiplies *)
(* the stored current_rate by 20 and every stored score by 19; the order   *)
(* of the values, which is all the heuristic uses, is the order of the     *)
(* stored integers.  A nonce is one of NumNonces values, so that two       *)
(* entries can draw the same nonce.  A score of REBALANCE_THRESHOLD        *)
(* (1e100) takes more than 4000 conflicts and is not reached here.         *)

\* DECAY_RATE = 0.95 = DecayNum / DecayDen.
DecayNum == 19
DecayDen == 20

Nonces == 0..(NumNonces - 1)

VecEntry_new(score, nonce) == [score |-> score, nonce |-> nonce]

\* VecEntry::update.
VecEntry_update(entry, delta, nonce) == [score |-> entry.score + delta, nonce |-> nonce]

from_vec_entry(variable, vec_entry) ==
    [variable |-> variable, score |-> vec_entry.score, nonce |-> vec_entry.nonce]

\* Ord for SetEntry: by score, then by nonce; the variable is not compared.
cmp(a, b) ==
    IF a.score < b.score THEN "Less"
    ELSE IF a.score > b.score THEN "Greater"
    ELSE IF a.nonce < b.nonce THEN "Less"
    ELSE IF a.nonce > b.nonce THEN "Greater"
    ELSE "Equal"

\* BTreeSet::insert: an element that compares Equal to one in the set is dropped.
BTreeSet_insert(btree, entry) ==
    IF \E x \in btree : cmp(x, entry) = "Equal" THEN btree ELSE btree \cup {entry}

\* BTreeSet::remove removes the element that compares Equal to the key.
BTreeSet_remove(btree, entry) == {x \in btree : cmp(x, entry) # "Equal"}

BTreeSet_contains(btree, entry) == \E x \in btree : cmp(x, entry) = "Equal"

\* BTreeSet::iter().next(): the least element.
BTreeSet_first(btree) == CHOOSE x \in btree : \A y \in btree : cmp(x, y) # "Greater"

RECURSIVE VsidsScoring_new_loop(_, _, _, _)
VsidsScoring_new_loop(h, t, nonces, index) ==
    IF index >= t.num_variables THEN h
    ELSE LET vec_entry == VecEntry_new(variable_occurrence(t, index), nonces[index])
         IN  VsidsScoring_new_loop(
                 [h EXCEPT !.scores = Append(@, vec_entry),
                           !.btree = BTreeSet_insert(@, from_vec_entry(index, vec_entry))],
                 t, nonces, index + 1)

\* VsidsScoring::new; nonces[v] is the random nonce drawn for variable v.
VsidsScoring_new(t, nonces) ==
    VsidsScoring_new_loop([current_rate |-> 1, scores |-> <<>>, btree |-> {}],
                          t, nonces, 0)

set_entry(h, variable) == from_vec_entry(variable, At(h.scores, variable))

\* VsidsScoring::bump_score with the nonce drawn by VecEntry::update.
bump_score(h, variable, nonce) ==
    LET present == BTreeSet_contains(h.btree, set_entry(h, variable))
        removed == BTreeSet_remove(h.btree, set_entry(h, variable))
        scores == SetAt(h.scores, variable,
                        VecEntry_update(At(h.scores, variable), h.current_rate, nonce))
        bumped == [h EXCEPT !.scores = scores, !.btree = removed]
    IN  IF present
        THEN [bumped EXCEPT !.btree = BTreeSet_insert(@, set_entry(bumped, variable))]
        ELSE bumped

VsidsScoring_insert(h, variable) ==
    [h EXCEPT !.btree = BTreeSet_insert(@, set_entry(h, variable))]

VsidsScoring_remove(h, variable) ==
    [h EXCEPT !.btree = BTreeSet_remove(@, set_entry(h, variable))]

\* VsidsScoring::top unwraps the first element of the set.
top_ok(h) == h.btree # {}

top(h) == BTreeSet_first(h.btree).variable

\* VsidsScoring::decay: current_rate /= 0.95 (see the note on the representation).
decay(h) ==
    [current_rate |-> h.current_rate * DecayDen,
     scores |-> [i \in 1..Len(h.scores) |-> [h.scores[i] EXCEPT !.score = @ * DecayNum]],
     btree |-> {[x EXCEPT !.score = @ * DecayNum] : x \in h.btree}]

RECURSIVE learn_clause_loop(_, _, _, _)
learn_clause_loop(h, clause, nonces, i) ==
    IF i > Len(clause) THEN h
    ELSE learn_clause_loop(bump_score(h, clause[i].variable, nonces[i]),
                           clause, nonces, i + 1)

\* learn_clause bumping the first literal's variable only.
learn_clause_first(h, clause, nonces) == bump_score(h, clause[1].variable, nonces[1])

\* VsidsScoring::learn_clause; nonces[i] is drawn for the bump of literal i.
learn_clause(h, clause, nonces) == learn_clause_loop(h, clause, nonces, 1)

----------------------------------------------------------------------------
(* Conflict analyzer (solver/cdcl/conflict.rs) and its data provider. *)

Decision == <<"Decision">>
UnitPropagation(clause_idx) == <<"UnitPropagation", clause_idx>>

CdclDataProvider_new(t, decs) == [tracker |-> t, decisions |-> decs]

\* CdclDataProvider::value (unwraps the assignment).
dp_value_ok(dp, variable) == IsSome(dp.tracker.assignments[variable])
dp_value(dp, variable) == Unwrap(dp.tracker.assignments[variable])

\* CdclDataProvider::level (decision_for_variable unwraps the decision).
dp_level_ok(dp, variable) == IsSome(dp.decisions[variable])
dp_level(dp, variable) == Unwrap(dp.decisions[variable]).decision_level

\* CdclDataProvider::antecedents.
antecedents(dp, variable) ==
    LET decision == Unwrap(dp.decisions[variable])
    IN  IF decision.reason[1] = "UnitPropagation"
        THEN Some(original_clause(dp.tracker, decision.reason[2]))
        ELSE None

Session_new(current_level) ==
    [current_level |-> current_level, seen |-> {}, recorded |-> <<>>,
     unresolved_on_current_level |-> 0, panicked |-> ""]

\* Session::add_clause recording the literals of level 0 as well.
Session_add_clause_step_level0(session, dp, literal) ==
    IF literal.variable \in session.seen THEN session
    ELSE LET marked == [session EXCEPT !.seen = @ \cup {literal.variable}]
             literal_level == dp_level(dp, literal.variable)
         IN  IF ~dp_level_ok(dp, literal.variable)
             THEN [marked EXCEPT !.panicked = "level"]
             ELSE IF literal_level = session.current_level
             THEN [marked EXCEPT !.unresolved_on_current_level = @ + 1]
             ELSE [marked EXCEPT !.recorded = Append(@, literal)]

\* Session::add_clause recording the negation of a lower level's literal.
Session_add_clause_step_negated(session, dp, literal) ==
    IF literal.variable \in session.seen THEN session
    ELSE LET marked == [session EXCEPT !.seen = @ \cup {literal.variable}]
             literal_level == dp_level(dp, literal.variable)
         IN  IF ~dp_level_ok(dp, literal.variable)
             THEN [marked EXCEPT !.panicked = "level"]
             ELSE IF literal_level = session.current_level
             THEN [marked EXCEPT !.unresolved_on_current_level = @ + 1]
             ELSE IF literal_level # 0
             THEN [marked EXCEPT !.recorded = Append(@, Not(literal))]
             ELSE marked

\* One iteration of Session::add_clause (with ConflictAnalyzer::mark_if_unseen).
Session_add_clause_step(session, dp, literal) ==
    IF literal.variable \in session.seen THEN session
    ELSE LET marked == [session EXCEPT !.seen = @ \cup {literal.variable}]
             literal_level == dp_level(dp, literal.variable)
         IN  IF ~dp_level_ok(dp, literal.variable)
             THEN [marked EXCEPT !.panicked = "level"]
             ELSE IF literal_level = session.current_level
             THEN [marked EXCEPT !.unresolved_on_current_level = @ + 1]
             ELSE IF literal_level # 0
             THEN [marked EXCEPT !.recorded = Append(@, literal)]
             ELSE marked

RECURSIVE Session_add_clause_loop(_, _, _, _)
Session_add_clause_loop(session, dp, clause, i) ==
    IF session.panicked # "" \/ i > Len(clause) THEN session
    ELSE Session_add_clause_loop(Session_add_clause_step(session, dp, clause[i]),
                                 dp, clause, i + 1)

\* Session::add_clause leaving out the literals of the levels below the current one.
Session_add_clause_current_only(session, dp, clause) ==
    LET added == Session_add_clause_loop(session, dp, clause, 1)
    IN  [added EXCEPT !.recorded = session.recorded]

Session_add_clause(session, dp, clause) == Session_add_clause_loop(session, dp, clause, 1)

\* The literal analyze records for the First UIP: the negation of its value.
uip_literal_same(dp, variable) == Literal_new(variable, dp_value(dp, variable))

uip_literal(dp, variable) == Literal_new(variable, ~dp_value(dp, variable))

\* The loop of ConflictAnalyzer::analyze over the current level's literals, last
\* first.  The result is the session with field done set when the First UIP was
\* reached (recorded is then the learned clause), or with panicked set.
RECURSIVE analyze_loop(_, _, _, _)
analyze_loop(session, dp, literals, i) ==
    IF session.panicked # "" THEN session
    ELSE IF i < 1 THEN [session EXCEPT !.panicked = "unreachable"]
    ELSE LET variable == literals[i].variable IN
         IF variable \notin session.seen THEN analyze_loop(session, dp, literals, i - 1)
         ELSE IF session.unresolved_on_current_level = 0
         THEN [session EXCEPT !.panicked = "underflow"]
         ELSE IF session.unresolved_on_current_level = 1
         THEN IF dp_value_ok(dp, variable)
              THEN [session EXCEPT !.unresolved_on_current_level = 0,
                                   !.recorded = Append(@, uip_literal(dp, variable))]
              ELSE [session EXCEPT !.panicked = "value"]
         ELSE IF ~IsSome(antecedents(dp, variable))
         THEN [session EXCEPT !.panicked = "antecedents"]
         ELSE analyze_loop(
                  Session_add_clause([session EXCEPT !.unresolved_on_current_level = @ - 1],
                                     dp, Unwrap(antecedents(dp, variable))),
                  dp, literals, i - 1)

\* ConflictAnalyzer::analyze.  Session::finish clears the seen marks, so the
\* analyzer itself carries nothing from one call to the next.
analyze(dp, current_level, conflicting_clause, literals) ==
    LET session == analyze_loop(
                       Session_add_clause(Session_new(current_level), dp,
                                          conflicting_clause),
                       dp, literals, Len(literals))
    IN  [panicked |-> session.panicked, clause |-> session.recorded]

----------------------------------------------------------------------------
(* CDCL engine (solver/cdcl.rs).  The operators work on a record of the    *)
(* solver's fields; panicked names the panic that stopped it ("" if none). *)

Decision_new(decision_level, reason) ==
    [decision_level |-> decision_level, reason |-> reason]

current_level(s) == Len(s.frame)

\* push_decision recording the level in force before the frame is opened.
push_decision_old_level(s, literal, reason) ==
    LET framed == IF reason = Decision THEN Append(s.frame, Len(s.decision_stack))
                  ELSE s.frame
        t == set_literal(s.tracker, literal)
        pushed == [s EXCEPT !.frame = framed,
                            !.decision_stack = Append(@, literal),
                            !.decisions[literal.variable] =
                                Some(Decision_new(Len(s.frame), reason)),
                            !.tracker = t]
    IN  IF t.panicked # "" THEN [pushed EXCEPT !.panicked = t.panicked]
        ELSE [pushed EXCEPT !.score_heuristic = VsidsScoring_remove(@, literal.variable)]

\* CdclSolver::push_decision.
push_decision(s, literal, reason) ==
    LET framed == IF reason = Decision THEN Append(s.frame, Len(s.decision_stack))
                  ELSE s.frame
        t == set_literal(s.tracker, literal)
        pushed == [s EXCEPT !.frame = framed,
                            !.decision_stack = Append(@, literal),
                            !.decisions[literal.variable] =
                                Some(Decision_new(Len(framed), reason)),
                            !.tracker = t]
    IN  IF t.panicked # "" THEN [pushed EXCEPT !.panicked = t.panicked]
        ELSE [pushed EXCEPT !.score_heuristic = VsidsScoring_remove(@, literal.variable)]

\* CdclSolver::pop_decision on a non-empty decision_stack.
pop_decision(s) ==
    LET literal == Last(s.decision_stack)
        t == unset(s.tracker, literal.variable)
        decision == s.decisions[literal.variable]
        popped == [s EXCEPT !.decision_stack = Front(@),
                            !.score_heuristic = VsidsScoring_insert(@, literal.variable),
                            !.tracker = t]
    IN  IF t.panicked # "" THEN [popped EXCEPT !.panicked = t.panicked]
        ELSE IF ~IsSome(decision) THEN [popped EXCEPT !.panicked = "decision"]
        ELSE [popped EXCEPT !.decisions[literal.variable] = None,
                            !.frame = IF Unwrap(decision).reason = Decision
                                      THEN Front(@) ELSE @]

\* The rewind loop leaving one level too few: it also unwinds level
\* rewind_until itself.
RECURSIVE rewind_below(_, _)
rewind_below(s, rewind_until) ==
    IF s.panicked # "" \/ current_level(s) < rewind_until THEN s
    ELSE IF s.decision_stack = <<>> THEN s
    ELSE rewind_below(pop_decision(s), rewind_until)

\* while self.current_level() > rewind_until { self.pop_decision(); }
\* pop_decision on an empty stack returns None and changes nothing, so the loop
\* would not end; frame is never non-empty over an empty stack.
RECURSIVE rewind(_, _)
rewind(s, rewind_until) ==
    IF s.panicked # "" \/ current_level(s) <= rewind_until THEN s
    ELSE IF s.decision_stack = <<>> THEN [s EXCEPT !.panicked = "diverge"]
    ELSE rewind(pop_decision(s), rewind_until)

\* CdclSolver::new; nonces are the random nonces VsidsScoring::new draws.
CdclSolver_new(cnf, nonces) ==
    LET t == from_cnf(cnf)
    IN  [tracker |-> t,
         score_heuristic |-> VsidsScoring_new(t, nonces),
         decisions |-> [v \in Variables(cnf.num_variables) |-> None],
         decision_stack |-> <<>>,
         frame |-> <<>>,
         panicked |-> ""]

\* The clause the conflict branch of solve analyses and what analyze is given.
conflict_clause_index(s) == Min(falsified_clauses(s.tracker))

\* The current level's literals without the decision that opened the level.
current_level_trail_propagated(s) ==
    SubSeq(s.decision_stack, Last(s.frame) + 2, Len(s.decision_stack))

current_level_trail(s) ==
    SubSeq(s.decision_stack, Last(s.frame) + 1, Len(s.decision_stack))

clause_to_learn(s) ==
    analyze(CdclDataProvider_new(s.tracker, s.decisions), current_level(s),
            original_clause(s.tracker, conflict_clause_index(s)),
            current_level_trail(s))

\* The levels below the current one among the learned clause's literals.
lower_levels(s, clause) ==
    {Unwrap(s.decisions[clause[i].variable]).decision_level : i \in 1..Len(clause)}
        \cap 0..(current_level(s) - 1)

\* The conflict branch rewinding to level 0 whatever the learned clause is.
solve_conflict_restart(s, nonces, checks) ==
    LET learned == clause_to_learn(s)
        clause == learned.clause
        second_max == lower_levels(s, clause)
        scored == IF second_max = {} THEN s.score_heuristic
                  ELSE learn_clause(s.score_heuristic, clause, nonces)
    IN  IF learned.panicked # "" THEN [s EXCEPT !.panicked = learned.panicked]
        ELSE IF second_max = {} /\ Len(clause) # 1 /\ checks
        THEN [s EXCEPT !.panicked = "debug_assert"]
        ELSE rewind([s EXCEPT !.score_heuristic = decay(scored),
                              !.tracker = add_clause(@, clause)],
                    0)

\* The conflict branch of solve (lines 141-176), at current_level > 0.
\* nonces[i] is the nonce drawn when literal i of the learned clause is bumped;
\* checks tells whether debug assertions are compiled in.
solve_conflict(s, nonces, checks) ==
    LET learned == clause_to_learn(s)
        clause == learned.clause
        second_max == lower_levels(s, clause)
        rewind_until == IF second_max = {} THEN 0 ELSE Max(second_max)
        scored == IF second_max = {} THEN s.score_heuristic
                  ELSE learn_clause(s.score_heuristic, clause, nonces)
    IN  IF learned.panicked # "" THEN [s EXCEPT !.panicked = learned.panicked]
        ELSE IF second_max = {} /\ Len(clause) # 1 /\ checks
        THEN [s EXCEPT !.panicked = "debug_assert"]
        ELSE rewind([s EXCEPT !.score_heuristic = decay(scored),
                              !.tracker = add_clause(@, clause)],
                    rewind_until)

\* Unit propagation that goes on to a second unit clause without looking at
\* the Falsified bucket in between.
solve_propagate_twice(s) ==
    LET clause_idx == Min(unit_clauses(s.tracker))
        once == push_decision(s, get_unit_clause_literal(s.tracker, clause_idx),
                              UnitPropagation(clause_idx))
    IN  IF once.panicked # "" \/ unit_clauses(once.tracker) = {} THEN once
        ELSE LET next_idx == Min(unit_clauses(once.tracker)) IN
             push_decision(once, get_unit_clause_literal(once.tracker, next_idx),
                           UnitPropagation(next_idx))

\* Unit propagation recording the first clause of the tracker as the reason.
solve_propagate_first_reason(s) ==
    LET clause_idx == Min(unit_clauses(s.tracker))
    IN  IF ~get_unit_clause_literal_ok(s.tracker, clause_idx)
        THEN [s EXCEPT !.panicked = "get_unit_clause_literal"]
        ELSE push_decision(s, get_unit_clause_literal(s.tracker, clause_idx),
                           UnitPropagation(0))

\* The unit-propagation branch of solve (lines 181-185).
solve_propagate(s) ==
    LET clause_idx == Min(unit_clauses(s.tracker))
    IN  IF ~get_unit_clause_literal_ok(s.tracker, clause_idx)
        THEN [s EXCEPT !.panicked = "get_unit_clause_literal"]
        ELSE push_decision(s, get_unit_clause_literal(s.tracker, clause_idx),
                           UnitPropagation(clause_idx))

\* The branching branch of solve (lines 186-191).
solve_decide(s) ==
    IF ~top_ok(s.score_heuristic) THEN [s EXCEPT !.panicked = "top"]
    ELSE push_decision(s, Literal_new(top(s.score_heuristic), TRUE), Decision)

\* The fill mapping an unassigned variable to false.
fill_assignment_false(assignments) ==
    [v \in DOMAIN assignments |->
        IF IsSome(assignments[v]) THEN Unwrap(assignments[v]) ELSE FALSE]

\* Lines 195-200: the assignment handed to Model::new.
fill_assignment(assignments) ==
    [v \in DOMAIN assignments |->
        IF IsSome(assignments[v]) THEN Unwrap(assignments[v]) ELSE TRUE]

----------------------------------------------------------------------------
(* DPLL engine (solver/dpll.rs). *)

\* inner::Watch::new: both tables get one row per clause (clauses.len()), and
\* every literal of every clause is pushed to the row of its variable; a variable
\* index that is not below the number of rows is out of bounds.
RECURSIVE Dpll_Watch_new_loop(_, _, _, _)
Dpll_Watch_new_loop(watch, clauses, idx, i) ==
    IF watch.panicked # "" \/ idx >= Len(clauses) THEN watch
    ELSE IF i > Len(At(clauses, idx)) THEN Dpll_Watch_new_loop(watch, clauses, idx + 1, 1)
    ELSE LET literal == At(clauses, idx)[i] IN
         IF literal.variable >= Len(watch.positive)
         THEN [watch EXCEPT !.panicked = "watch index"]
         ELSE Dpll_Watch_new_loop(
                  IF literal.positive
                  THEN [watch EXCEPT !.positive[literal.variable + 1] = Append(@, idx)]
                  ELSE [watch EXCEPT !.negative[literal.variable + 1] = Append(@, idx)],
                  clauses, idx, i + 1)

Dpll_Watch_new(clauses) ==
    Dpll_Watch_new_loop([positive |-> [r \in 1..Len(clauses) |-> <<>>],
                         negative |-> [r \in 1..Len(clauses) |-> <<>>],
                         panicked |-> ""],
                        clauses, 0, 1)

\* Index<Literal> for inner::Watch.
Dpll_Row_ok(watch, literal) == literal.variable < Len(watch.positive)

Dpll_Row(watch, literal) ==
    IF literal.positive THEN At(watch.positive, literal.variable)
    ELSE At(watch.negative, literal.variable)

\* DpllSolver::new.
DpllSolver_new(cnf) ==
    LET watch == Dpll_Watch_new(cnf.clauses)
    IN  [formula |-> cnf,
         watch |-> watch,
         assignment |-> [v \in Variables(cnf.num_variables) |-> None],
         clause_stats |-> [c \in 1..Len(cnf.clauses) |-> [satisfied |-> 0, unsatisfied |-> 0]],
         satisfied_clauses |-> 0,
         unsatisfied_clauses |-> 0,
         assigned_stack |-> <<>>,
         panicked |-> watch.panicked]

\* DpllSolver::assigned_value.
assigned_value(d, literal) == partial_value(literal, d.assignment)

\* assign_literal counting the clause as newly satisfied at every occurrence.
assign_true_step_always(d, clause_index) ==
    LET stat == At(d.clause_stats, clause_index) IN
    [d EXCEPT !.satisfied_clauses = @ + 1,
              !.clause_stats = SetAt(@, clause_index, [stat EXCEPT !.satisfied = @ + 1])]

\* The body of the first loop of assign_literal (lines 129-136).
assign_true_step(d, clause_index) ==
    LET stat == At(d.clause_stats, clause_index) IN
    [d EXCEPT !.satisfied_clauses = IF stat.satisfied = 0 THEN @ + 1 ELSE @,
              !.clause_stats = SetAt(@, clause_index, [stat EXCEPT !.satisfied = @ + 1])]

\* The first loop of assign_literal, over the clauses watching the literal.
RECURSIVE assign_true_loop(_, _, _)
assign_true_loop(d, row, i) ==
    IF i > Len(row) THEN d
    ELSE assign_true_loop(assign_true_step(d, row[i]), row, i + 1)

\* The second loop of assign_literal, over the clauses watching the negation.
RECURSIVE assign_false_loop(_, _, _)
assign_false_loop(d, row, i) ==
    IF i > Len(row) THEN d
    ELSE LET stat == At(d.clause_stats, row[i])
             clause == At(d.formula.clauses, row[i]) IN
         assign_false_loop(
             [d EXCEPT !.unsatisfied_clauses =
                           IF stat.unsatisfied + 1 = Len(clause) THEN @ + 1 ELSE @,
                       !.clause_stats = SetAt(@, row[i],
                                              [stat EXCEPT !.unsatisfied = @ + 1])],
             row, i + 1)

\* DpllSolver::assign_literal.
assign_literal(d, literal) ==
    LET assigned == [d EXCEPT !.assigned_stack = Append(@, literal),
                              !.assignment[literal.variable] = Some(literal.positive)]
    IN  IF ~Dpll_Row_ok(d.watch, literal) THEN [assigned EXCEPT !.panicked = "watch index"]
        ELSE assign_false_loop(
                 assign_true_loop(assigned, Dpll_Row(d.watch, literal), 1),
                 Dpll_Row(d.watch, Not(literal)), 1)

\* pop_assignment counting the clause as no longer satisfied at every occurrence.
RECURSIVE pop_true_loop_always(_, _, _)
pop_true_loop_always(d, row, i) ==
    IF d.panicked # "" \/ i > Len(row) THEN d
    ELSE LET stat == At(d.clause_stats, row[i]) IN
         IF stat.satisfied = 0 \/ d.satisfied_clauses = 0
         THEN [d EXCEPT !.panicked = "underflow"]
         ELSE pop_true_loop_always(
                  [d EXCEPT !.satisfied_clauses = @ - 1,
                            !.clause_stats = SetAt(@, row[i],
                                                   [stat EXCEPT !.satisfied = @ - 1])],
                  row, i + 1)

\* The first loop of pop_assignment, over the clauses watching the literal; a
\* usize subtraction below zero is an abort.
RECURSIVE pop_true_loop(_, _, _)
pop_true_loop(d, row, i) ==
    IF d.panicked # "" \/ i > Len(row) THEN d
    ELSE LET stat == At(d.clause_stats, row[i]) IN
         IF stat.satisfied = 0 \/ (stat.satisfied = 1 /\ d.satisfied_clauses = 0)
         THEN [d EXCEPT !.panicked = "underflow"]
         ELSE pop_true_loop(
                  [d EXCEPT !.satisfied_clauses = IF stat.satisfied = 1 THEN @ - 1 ELSE @,
                            !.clause_stats = SetAt(@, row[i],
                                                   [stat EXCEPT !.satisfied = @ - 1])],
                  row, i + 1)

RECURSIVE pop_false_loop(_, _, _)
pop_false_loop(d, row, i) ==
    IF d.panicked # "" \/ i > Len(row) THEN d
    ELSE LET stat == At(d.clause_stats, row[i])
             clause == At(d.formula.clauses, row[i]) IN
         IF stat.unsatisfied = 0 \/ (stat.unsatisfied = Len(clause) /\ d.unsatisfied_clauses = 0)
         THEN [d EXCEPT !.panicked = "underflow"]
         ELSE pop_false_loop(
                  [d EXCEPT !.unsatisfied_clauses =
                                IF stat.unsatisfied = Len(clause) THEN @ - 1 ELSE @,
                            !.clause_stats = SetAt(@, row[i],
                                                   [stat EXCEPT !.unsatisfied = @ - 1])],
                  row, i + 1)

\* DpllSolver::pop_assignment.
pop_assignment(d) ==
    IF d.assigned_stack = <<>> THEN [d EXCEPT !.panicked = "pop"]
    ELSE LET literal == Last(d.assigned_stack)
             popped == [d EXCEPT !.assigned_stack = Front(@),
                                 !.assignment[literal.variable] = None]
         IN  IF ~Dpll_Row_ok(d.watch, literal)
             THEN [popped EXCEPT !.panicked = "watch index"]
             ELSE pop_false_loop(
                      pop_true_loop(popped, Dpll_Row(d.watch, literal), 1),
                      Dpll_Row(d.watch, Not(literal)), 1)

\* forced_assignment evaluates clause.num_literals() - 1 in usize when
\* stat.satisfied == 0: for an empty clause that subtraction overflows.
forced_assignment_overflows(d, clause_index) ==
    /\ At(d.clause_stats, clause_index).satisfied = 0
    /\ Len(At(d.formula.clauses, clause_index)) = 0

\* DpllSolver::forced_assignment where the subtraction does not overflow (or
\* wraps, so that the comparison is false): Some(literal), None, or a panic at
\* unreachable!().
forced_assignment(d, clause_index) ==
    LET clause == At(d.formula.clauses, clause_index)
        stat == At(d.clause_stats, clause_index)
        free == {i \in 1..Len(clause) : ~IsSome(assigned_value(d, clause[i]))}
    IN  IF stat.satisfied = 0 /\ Len(clause) > 0 /\ stat.unsatisfied = Len(clause) - 1
        THEN IF free = {} THEN <<"Panic", "unreachable">>
             ELSE <<"Some", clause[Min(free)]>>
        ELSE <<"None">>

\* DpllSolver::search_unit_clause.  checks tells whether arithmetic overflow
\* panics (a debug build) or wraps (a release build).
RECURSIVE search_unit_clause_loop(_, _, _)
search_unit_clause_loop(d, clause_index, checks) ==
    IF clause_index >= Len(d.formula.clauses) THEN <<"None">>
    ELSE IF forced_assignment_overflows(d, clause_index) /\ checks
    THEN <<"Panic", "overflow">>
    ELSE IF forced_assignment(d, clause_index) # <<"None">>
    THEN forced_assignment(d, clause_index)
    ELSE search_unit_clause_loop(d, clause_index + 1, checks)

search_unit_clause(d, checks) == search_unit_clause_loop(d, 0, checks)

\* Whether the two kinds of build can differ in search_unit_clause.
search_depends_on_checks(d) == search_unit_clause(d, TRUE) # search_unit_clause(d, FALSE)

\* DpllSolver::first_unassigned unwraps the position of the first None.
first_unassigned_ok(d) == \E v \in DOMAIN d.assignment : ~IsSome(d.assignment[v])

first_unassigned(d) == Min({v \in DOMAIN d.assignment : ~IsSome(d.assignment[v])})

----------------------------------------------------------------------------
(* DIMACS parser (parser.rs) and the FromStr impls of formula.rs.  A &str  *)
(* is a sequence of one-character strings.  A usize read from text is kept *)
(* as its decimal numeral without leading zeros, so that numerals beyond   *)
(* 2^32 and 2^64 can be compared; the crate only builds for 64-bit targets *)
(* (Variable::MAX_VARIABLE_INDEX + 1 has to fit a usize).                  *)

Digits == <<"0", "1", "2", "3", "4", "5", "6", "7", "8", "9">>
IsDigit(c) == \E d \in 1..10 : Digits[d] = c
DigitValue(c) == (CHOOSE d \in 1..10 : Digits[d] = c) - 1

\* usize::MAX = 2^64 - 1.
UsizeMax == <<"1", "8", "4", "4", "6", "7", "4", "4", "0", "7",
              "3", "7", "0", "9", "5", "5", "1", "6", "1", "5">>

\* Variable::MAX_VARIABLE_INDEX + 1 = 2^32.
MaxVariableCount == <<"4", "2", "9", "4", "9", "6", "7", "2", "9", "6">>

RECURSIVE StripZeros(_)
StripZeros(numeral) ==
    IF Len(numeral) > 1 /\ Head(numeral) = "0" THEN StripZeros(Tail(numeral))
    ELSE numeral

RECURSIVE GreaterSameLen(_, _)
GreaterSameLen(a, b) ==
    IF a = <<>> THEN FALSE
    ELSE IF Head(a) # Head(b) THEN DigitValue(Head(a)) > DigitValue(Head(b))
    ELSE GreaterSameLen(Tail(a), Tail(b))

\* a > b, for numerals without leading zeros.
Greater(a, b) ==
    IF Len(a) # Len(b) THEN Len(a) > Len(b) ELSE GreaterSameLen(a, b)

\* The number a numeral stands for.
RECURSIVE NumeralValue(_)
NumeralValue(numeral) ==
    IF numeral = <<>> THEN 0
    ELSE 10 * NumeralValue(Front(numeral)) + DigitValue(Last(numeral))

Ok(x) == <<"Ok", x>>
Err(e) == <<"Err", e>>
is_ok(r) == r[1] = "Ok"

Whitespace == {" ", "\t"}

RECURSIVE trim_start(_)
trim_start(s) ==
    IF s # <<>> /\ Head(s) \in Whitespace THEN trim_start(Tail(s)) ELSE s

RECURSIVE trim_end(_)
trim_end(s) ==
    IF s # <<>> /\ Last(s) \in Whitespace THEN trim_end(Front(s)) ELSE s

\* str::trim.
trim(s) == trim_end(trim_start(s))

starts_with(s, c) == s # <<>> /\ Head(s) = c

RECURSIVE split_loop(_, _, _)
split_loop(pieces, piece, rest) ==
    IF rest = <<>> THEN Append(pieces, piece)
    ELSE IF Head(rest) = " "
         THEN split_loop(Append(pieces, piece), <<>>, Tail(rest))
         ELSE split_loop(pieces, Append(piece, Head(rest)), Tail(rest))

\* str::split(" "): the pieces between single spaces, empty pieces included;
\* never an empty Vec.
split(s) == split_loop(<<>>, <<>>, s)

\* str::parse::<usize>: an optional '+', then one or more decimal digits that
\* stand for a number up to usize::MAX.
usize_from_str(s) ==
    LET digits == IF Len(s) > 1 /\ Head(s) = "+" THEN Tail(s) ELSE s IN
    IF digits = <<>> \/ \E i \in 1..Len(digits) : ~IsDigit(digits[i])
    THEN Err("ParseIntError")
    ELSE IF Greater(StripZeros(digits), UsizeMax) THEN Err("ParseIntError")
    ELSE Ok(StripZeros(digits))

\* Variable::from_str that keeps the one-based identifier as the index.
Variable_from_str_one_based(s) ==
    LET num == usize_from_str(s) IN
    IF ~is_ok(num) THEN Err("ParseIntError")
    ELSE IF num[2] = <<"0">> THEN Err("RangeError")
    ELSE IF Greater(num[2], MaxVariableCount) THEN Err("RangeError")
    ELSE Ok(NumeralValue(num[2]))

\* impl FromStr for Variable.
Variable_from_str(s) ==
    LET num == usize_from_str(s) IN
    IF ~is_ok(num) THEN Err("ParseIntError")
    ELSE IF num[2] = <<"0">> THEN Err("RangeError")
    ELSE IF Greater(num[2], MaxVariableCount) THEN Err("RangeError")
    ELSE Ok(NumeralValue(num[2]) - 1)

\* Literal::from_str that reads every token as a positive literal.
Literal_from_str_positive(s) ==
    LET variable == Variable_from_str(IF starts_with(s, "-") THEN Tail(s) ELSE s) IN
    IF is_ok(variable) THEN Ok(Literal_new(variable[2], TRUE)) ELSE variable

\* impl FromStr for Literal.
Literal_from_str(s) ==
    LET positive == ~starts_with(s, "-")
        variable == Variable_from_str(IF positive THEN s ELSE Tail(s))
    IN  IF is_ok(variable) THEN Ok(Literal_new(variable[2], positive)) ELSE variable

\* The loop of parse_line over splitted[..len - 1]; parsed keeps what
\* str::parse::<Literal> returned for each token it got to.
RECURSIVE parse_line_loop(_, _, _, _)
parse_line_loop(tokens, i, variables, parsed) ==
    IF i > Len(tokens)
    THEN [result |-> Ok(variables), tokens |-> tokens, parsed |-> parsed]
    ELSE LET literal == Literal_from_str(tokens[i]) IN
         IF is_ok(literal)
         THEN parse_line_loop(tokens, i + 1, Append(variables, literal[2]),
                              Append(parsed, literal))
         ELSE [result |-> Err("MalformedVariable"), tokens |-> tokens,
               parsed |-> Append(parsed, literal)]

\* parse_line.
parse_line(line) ==
    LET splitted == split(line) IN
    IF ~(splitted # <<>> /\ Last(splitted) = <<"0">>)
    THEN [result |-> Err("MalformedClause"), tokens |-> <<>>, parsed |-> <<>>]
    ELSE parse_line_loop(Front(splitted), 1, <<>>, <<>>)

\* The ensure! of parse_file on the tokens of the problem line: "pass",
\* "fail" (MalformedProblemDefinition), or "panic" when splitted[1] is read
\* from a Vec of one token.
problem_line_ensure(splitted) ==
    IF Len(splitted) = 4 THEN "pass"
    ELSE IF At(splitted, 0) = <<"p">> THEN "pass"
    ELSE IF Len(splitted) < 2 THEN "panic"
    ELSE IF At(splitted, 1) = <<"c", "n", "f">> THEN "pass"
    ELSE "fail"

\* Iterator::skip_while(|line| !line.starts_with('p')).
RECURSIVE skip_while(_)
skip_while(lines) ==
    IF lines # <<>> /\ ~starts_with(Head(lines), "p") THEN skip_while(Tail(lines))
    ELSE lines

\* What parse_file makes of the tokens of the problem line, after the
\* ensure!: the two numbers, MalformedProblemDefinition, or the panic of
\* indexing splitted[2] or splitted[3] out of bounds or of the assertion of
\* Cnf::new.
problem_line_numbers(splitted) ==
    IF Len(splitted) < 4 THEN <<"Panic", "index out of bounds">>
    ELSE LET num_variables == usize_from_str(At(splitted, 2))
             expected == usize_from_str(At(splitted, 3))
         IN  IF ~(is_ok(num_variables) /\ is_ok(expected))
             THEN Err("MalformedProblemDefinition")
             ELSE IF Greater(num_variables[2], MaxVariableCount)
             THEN <<"Panic", "Cnf::new">>
             ELSE Ok([num_variables |-> NumeralValue(num_variables[2]),
                      expected |-> expected[2]])

\* Cnf::empty_clause_count is called by parse_file and defined nowhere in
\* the sources; clauses without literals are pushed to clauses() like the
\* others, so nothing is left for it to count.
empty_clause_count(cnf) == 0

\* The last ensure! of parse_file; expected is the numeral of num_clauses.
clause_count_matches(cnf, expected) ==
    /\ Len(expected) <= 9
    /\ Len(cnf.clauses) + empty_clause_count(cnf) = NumeralValue(expected)

----------------------------------------------------------------------------
(* Inputs. *)

SeqsUpTo(S, k) == UNION {[1..m -> S] : m \in 0..k}

\* The value of a CDCL or DPLL variable of a solver that was not constructed.
Unbuilt == <<>>

\* Clauses of at most MaxLen literals over n variables, the literals listed by
\* non-decreasing variable.  In a clause of at most DupLen literals a literal
\* may repeat and both polarities of a variable may occur; a longer clause has
\* distinct variables.
ClauseUniverse(n) ==
    {c \in SeqsUpTo(Literals(n), MaxLen) :
        \A i \in 1..(Len(c) - 1) :
            \/ c[i].variable < c[i + 1].variable
            \/ (c[i].variable = c[i + 1].variable /\ Len(c) <= DupLen)}

RECURSIVE Cnf_from(_, _, _)
Cnf_from(cnf, clauses, i) ==
    IF i > Len(clauses) THEN cnf
    ELSE Cnf_from(Cnf_add_clause(cnf, clauses[i]), clauses, i + 1)

\* A literal in DIMACS notation: k is variable k - 1, -k its negation.
Lit(k) == IF k > 0 THEN Literal_new(k - 1, TRUE) ELSE Literal_new(0 - k - 1, FALSE)

Dimacs(num_variables, lines) ==
    Cnf_from(Cnf_new(num_variables),
             [c \in 1..Len(lines) |-> [i \in 1..Len(lines[c]) |-> Lit(lines[c][i])]], 1)

\* Larger formulas, beside the exhaustive small ones: a satisfiable chain; the
\* four two-literal clauses over two variables (unsatisfiable); a conflict whose
\* First UIP is a propagated variable; one whose learned clause has a literal
\* of a lower level as well; one whose learned clause has a positive literal;
\* a conflict over a variable assigned at level 0; and a propagation at level
\* 0 followed by two decisions and a propagation at level 2.
Scenarios ==
    {Dimacs(3, <<<<1, 2>>, <<-1, 3>>, <<-2, -3>>>>),
     Dimacs(2, <<<<1, 2>>, <<1, -2>>, <<-1, 2>>, <<-1, -2>>>>),
     Dimacs(3, <<<<-1, 2>>, <<-2, 3>>, <<-2, -3>>>>),
     Dimacs(4, <<<<-2, 3>>, <<-1, -3, 4>>, <<-1, -3, -4>>, <<2, -2, 4>>>>),
     Dimacs(4, <<<<-1, -3>>, <<-2, 3, 4>>, <<-2, 3, -4>>>>),
     Dimacs(3, <<<<1>>, <<-1, -2, 3>>, <<-1, -2, -3>>>>),
     Dimacs(4, <<<<1>>, <<-2, -3, 4>>, <<1, 4>>>>)}

\* The formulas the solvers are run on: the scenarios, and every formula of up
\* to NumVars variables and up to MaxClauses clauses of the clause universe,
\* built as the parser builds it.
Formulas ==
    Scenarios \cup
    UNION {{Cnf_from(Cnf_new(n), clauses, 1) :
                clauses \in SeqsUpTo(ClauseUniverse(n), MaxClauses)} :
           n \in 0..NumVars}

\* The builds the run so far is consistent with.
Builds == IF IsSome(overflow_checks) THEN {Unwrap(overflow_checks)} ELSE BOOLEAN

----------------------------------------------------------------------------
(* The tracker on its own: any sequence of add_clause, set_literal and unset. *)

TrackerInit ==
    \E n \in 1..TrackerVars :
        /\ pc = "tracker"
        /\ formula = Cnf_new(n)
        /\ tracker = Tracker_new(n)
        /\ decisions = Unbuilt
        /\ decision_stack = Unbuilt
        /\ frame = Unbuilt
        /\ score_heuristic = Unbuilt
        /\ cdcl_result = Unbuilt
        /\ dpll = Unbuilt
        /\ dpll_frames = Unbuilt
        /\ dpll_result = Unbuilt
        /\ overflow_checks = None
        /\ model = Unbuilt
        /\ parser = Unbuilt

TrackerAddClause ==
    /\ pc = "tracker"
    /\ tracker.panicked = ""
    /\ Len(tracker.clauses) < TrackerClauses
    /\ \E clause \in SeqsUpTo(Literals(tracker.num_variables), TrackerLen) :
           tracker' = add_clause(tracker, clause)
    /\ UNCHANGED <<parser, model, pc, formula, decisions, decision_stack, frame, score_heuristic,
                   cdcl_result, dpll, dpll_frames, dpll_result,
                   overflow_checks>>

TrackerSetLiteral ==
    /\ pc = "tracker"
    /\ tracker.panicked = ""
    /\ \E literal \in Literals(tracker.num_variables) :
           tracker' = set_literal(tracker, literal)
    /\ UNCHANGED <<parser, model, pc, formula, decisions, decision_stack, frame, score_heuristic,
                   cdcl_result, dpll, dpll_frames, dpll_result,
                   overflow_checks>>

TrackerUnset ==
    /\ pc = "tracker"
    /\ tracker.panicked = ""
    /\ \E variable \in Variables(tracker.num_variables) :
           tracker' = unset(tracker, variable)
    /\ UNCHANGED <<parser, model, pc, formula, decisions, decision_stack, frame, score_heuristic,
                   cdcl_result, dpll, dpll_frames, dpll_result,
                   overflow_checks>>

TrackerNext == TrackerAddClause \/ TrackerSetLiteral \/ TrackerUnset

SpecTracker == TrackerInit /\ [][TrackerNext]_vars

----------------------------------------------------------------------------
(* Properties of the tracker. *)

\* The number of literal occurrences of a clause with the given partial value.
Occurrences(clause, assignments, pv) ==
    Cardinality({i \in 1..Len(clause) : partial_value(clause[i], assignments) = pv})

ClauseIds(t) == 0..(Len(t.clauses) - 1)

StatusNames == {"Falsified", "Satisfied", "Unit", "Unresolved"}

\* C6: after any sequence of add_clause, set_literal and unset, every clause's
\* satisfied count is the number of its literal occurrences that are true under
\* the current assignment and its unsatisfied count the number that are false.
C6_CountsExact ==
    (pc = "tracker" /\ tracker.panicked = "") =>
        \A idx \in ClauseIds(tracker) :
            LET clause == At(tracker.clauses, idx) IN
            /\ clause.stat.total = Len(clause.original)
            /\ clause.stat.satisfied
                   = Occurrences(clause.original, tracker.assignments, Some(TRUE))
            /\ clause.stat.unsatisfied
                   = Occurrences(clause.original, tracker.assignments, Some(FALSE))

\* A clause with a duplicate literal was added under a non-empty assignment and
\* now counts two false occurrences, next to a clause added before any assignment.
C6_Witness ==
    /\ pc = "tracker" /\ tracker.panicked = ""
    /\ Len(tracker.clauses) = 2
    /\ \E idx \in ClauseIds(tracker) :
           LET clause == At(tracker.clauses, idx) IN
           /\ clause.stat.unsatisfied = 2
           /\ Len(clause.original) = 2
           /\ clause.original[1] = clause.original[2]
    /\ \E idx \in ClauseIds(tracker) :
           LET clause == At(tracker.clauses, idx) IN
           /\ clause.stat.satisfied = 1 /\ clause.stat.unsatisfied = 1
           /\ clause.original[1].variable = clause.original[2].variable

\* C7: the four buckets partition the clause ids, each clause is in the bucket of
\* the status that from_count gives for its counts, and the assertions of
\* handle_change never fail.
C7_BucketsPartition ==
    pc = "tracker" =>
        /\ tracker.panicked # "handle_change"
        /\ tracker.panicked = "" =>
             /\ \A s \in StatusNames : tracker.clause_cache[s] \subseteq ClauseIds(tracker)
             /\ \A idx \in ClauseIds(tracker) :
                    LET stat == At(tracker.clauses, idx).stat IN
                    /\ stat.status = from_count(stat.total, stat.satisfied, stat.unsatisfied)
                    /\ \A s \in StatusNames :
                           (idx \in tracker.clause_cache[s]) <=> (s = stat.status)

\* Clauses sit in three different buckets under a non-empty assignment.
C7_Witness ==
    /\ pc = "tracker" /\ tracker.panicked = ""
    /\ tracker.assigned_count > 0
    /\ Cardinality({s \in StatusNames : tracker.clause_cache[s] # {}}) >= 2
    /\ tracker.clause_cache.Unit # {}
    /\ tracker.clause_cache.Falsified # {}

\* What C8 compares: the buckets, each clause's counts and status, the assignment.
TrackerView(t) ==
    [clause_cache |-> t.clause_cache,
     stats |-> [i \in 1..Len(t.clauses) |-> t.clauses[i].stat],
     assignments |-> t.assignments,
     panicked |-> t.panicked]

\* C8: in every reachable tracker state, for every literal of an unassigned
\* variable, set_literal then unset of its variable restores the buckets, every
\* clause's (satisfied, unsatisfied, status) and the assignment vector.
C8_SetUnsetRoundTrip ==
    (pc = "tracker" /\ tracker.panicked = "") =>
        \A literal \in Literals(tracker.num_variables) :
            ~IsSome(tracker.assignments[literal.variable]) =>
                TrackerView(unset(set_literal(tracker, literal), literal.variable))
                    = TrackerView(tracker)

\* A state reached through earlier set/unset calls in which setting a literal
\* moves clauses between buckets (so the round trip has something to undo).
C8_Witness ==
    /\ pc = "tracker" /\ tracker.panicked = ""
    /\ tracker.assigned_count = 1
    /\ Len(tracker.clauses) = 2
    /\ \E literal \in Literals(tracker.num_variables) :
           /\ ~IsSome(tracker.assignments[literal.variable])
           /\ LET t2 == set_literal(tracker, literal) IN
              /\ t2.clause_cache.Falsified # {}
              /\ t2.clause_cache.Satisfied # tracker.clause_cache.Satisfied
              /\ t2.clause_cache # tracker.clause_cache

\* What C20 compares: the clauses with their counts and live-literal lists,
\* the watch lists and the buckets.
TrackerClauses_view(t) ==
    [clauses |-> t.clauses, watch |-> t.watch, clause_cache |-> t.clause_cache]

\* C20: set_literal on a literal whose variable is assigned aborts, and unset
\* on a variable that is not assigned aborts; in both cases no clause count,
\* live-literal list or bucket has been modified when the abort happens.
C20_AbortBeforeCounts ==
    (pc = "tracker" /\ tracker.panicked = "") =>
        /\ \A literal \in Literals(tracker.num_variables) :
               IsSome(tracker.assignments[literal.variable]) =>
                   /\ set_literal(tracker, literal).panicked = "set_literal"
                   /\ TrackerClauses_view(set_literal(tracker, literal))
                          = TrackerClauses_view(tracker)
        /\ \A variable \in Variables(tracker.num_variables) :
               ~IsSome(tracker.assignments[variable]) =>
                   /\ unset(tracker, variable).panicked = "unset"
                   /\ TrackerClauses_view(unset(tracker, variable))
                          = TrackerClauses_view(tracker)

\* set_literal has aborted on a variable that was assigned the opposite
\* value, in a tracker of two clauses one of which watches the literal.
C20_Witness ==
    /\ pc = "tracker"
    /\ tracker.panicked = "set_literal"
    /\ Len(tracker.clauses) = 2
    /\ tracker.clause_cache.Falsified # {}
    /\ tracker.assigned_count = 1

\* C21: get_unit_clause_literal(id) panics when clause id is not a Unit clause
\* (a Satisfied clause with one unassigned literal left, for example), and for
\* a Unit clause it returns the one literal of the clause whose variable is
\* unassigned.
C21_UnitLiteralOrPanic ==
    (pc = "tracker" /\ tracker.panicked = "") =>
        \A id \in ClauseIds(tracker) :
            IF At(tracker.clauses, id).stat.status = "Unit"
            THEN /\ get_unit_clause_literal_ok(tracker, id)
                 /\ LET literal == get_unit_clause_literal(tracker, id)
                        clause == original_clause(tracker, id)
                    IN  /\ \E i \in 1..Len(clause) : clause[i] = literal
                        /\ ~IsSome(tracker.assignments[literal.variable])
                        /\ \A i \in 1..Len(clause) :
                               ~IsSome(tracker.assignments[clause[i].variable])
                                   => clause[i] = literal
            ELSE ~get_unit_clause_literal_ok(tracker, id)

\* The columns of a live-literal list that hold the given literal, and the
\* positions of a clause that do.
LiveColumns(literals, literal) == {c \in 1..Len(literals) : literals[c].literal = literal}
Positions(clause, literal) == {i \in 1..Len(clause) : clause[i] = literal}

\* C30: after any sequence of add_clause, set_literal and unset, each
\* clause's live-literal list holds exactly the literal occurrences of the
\* clause whose variable is unassigned, in some order; the live literal at
\* column c with watch index v is named by watch[literal][v], whose clause_idx
\* is this clause and whose clause_col is Some(c); every watch element of an
\* unassigned variable points at such a live literal and every watch element
\* of an assigned variable has clause_col None; and the unwrap of clause_col
\* in set_literal never fails.
C30_LiveLiteralsLinked ==
    pc = "tracker" =>
        /\ tracker.panicked # "clause_col"
        /\ tracker.panicked = "" =>
             /\ \A idx \in ClauseIds(tracker) :
                    LET clause == At(tracker.clauses, idx) IN
                    /\ \A literal \in Literals(tracker.num_variables) :
                           Cardinality(LiveColumns(clause.literals, literal))
                               = IF IsSome(tracker.assignments[literal.variable]) THEN 0
                                 ELSE Cardinality(Positions(clause.original, literal))
                    /\ \A c \in 0..(Len(clause.literals) - 1) :
                           LET live == At(clause.literals, c)
                               row == Row(tracker.watch, live.literal)
                           IN  /\ live.variable_col < Len(row)
                               /\ At(row, live.variable_col).clause_idx = idx
                               /\ At(row, live.variable_col).clause_col = Some(c)
             /\ \A literal \in Literals(tracker.num_variables) :
                    LET row == Row(tracker.watch, literal) IN
                    /\ \A idx \in ClauseIds(tracker) :
                           Cardinality({v \in 1..Len(row) : row[v].clause_idx = idx})
                               = Cardinality(Positions(original_clause(tracker, idx), literal))
                    /\ \A v \in 0..(Len(row) - 1) :
                           IF IsSome(tracker.assignments[literal.variable])
                           THEN At(row, v).clause_col = None
                           ELSE /\ IsSome(At(row, v).clause_col)
                                /\ LET literals == At(tracker.clauses,
                                                      At(row, v).clause_idx).literals
                                       c == Unwrap(At(row, v).clause_col)
                                   IN  /\ c < Len(literals)
                                       /\ At(literals, c).literal = literal
                                       /\ At(literals, c).variable_col = v

\* A clause of two different literals whose live-literal list holds them in
\* the opposite order, after a set_literal and an unset, next to a clause
\* that has lost a literal to the current assignment.
C30_Witness ==
    /\ pc = "tracker" /\ tracker.panicked = ""
    /\ tracker.assigned_count >= 1
    /\ \E idx \in ClauseIds(tracker) :
           LET clause == At(tracker.clauses, idx) IN
           /\ Len(clause.original) = 2
           /\ Len(clause.literals) = 2
           /\ clause.original[1] # clause.original[2]
           /\ clause.literals[1].literal = clause.original[2]
           /\ clause.literals[2].literal = clause.original[1]
    /\ \E idx \in ClauseIds(tracker) :
           LET clause == At(tracker.clauses, idx) IN
           /\ Len(clause.original) = 2
           /\ Len(clause.literals) = 1

----------------------------------------------------------------------------
(* The solvers: DpllSolver::new(formula).solve(), then                     *)
(* CdclSolver::new(formula).solve(), on the same formula.                  *)

Init ==
    /\ pc = "dpll_new"
    /\ formula \in Formulas
    /\ tracker = Unbuilt
    /\ decisions = Unbuilt
    /\ decision_stack = Unbuilt
    /\ frame = Unbuilt
    /\ score_heuristic = Unbuilt
    /\ cdcl_result = Unbuilt
    /\ dpll = Unbuilt
    /\ dpll_frames = Unbuilt
    /\ dpll_result = Unbuilt
    /\ overflow_checks = None
    /\ model = Unbuilt
    /\ parser = Unbuilt

CdclVars == <<tracker, decisions, decision_stack, frame, score_heuristic, cdcl_result>>
DpllVars == <<dpll, dpll_frames, dpll_result>>

\* A DPLL step that leaves the solver in state d: a panic ends the DPLL run.
DpllStep(d, call) ==
    /\ dpll' = d
    /\ IF d.panicked # ""
       THEN /\ dpll_result' = <<"Panic", d.panicked>>
            /\ pc' = "cdcl_new"
       ELSE /\ dpll_result' = dpll_result
            /\ pc' = call

DpllNew ==
    /\ pc = "dpll_new"
    /\ DpllStep(DpllSolver_new(formula), "dpll_call")
    /\ dpll_frames' = <<>>
    /\ UNCHANGED <<parser, model, formula, CdclVars, overflow_checks>>

\* solve_inner, lines 196-204: every clause is satisfied.  solve then hands the
\* filled assignment to Model::new.
DpllSucceed ==
    /\ pc = "dpll_call"
    /\ dpll.satisfied_clauses = Len(dpll.formula.clauses)
    /\ LET assignment == fill_assignment(dpll.assignment) IN
       /\ dpll_result' = IF Model_new_ok(dpll.formula, assignment)
                         THEN <<"Some", assignment>>
                         ELSE <<"Panic", "Model::new">>
       /\ model' = Model_new(dpll.formula, assignment)
    /\ pc' = "cdcl_new"
    /\ UNCHANGED <<parser, formula, CdclVars, dpll, dpll_frames, overflow_checks>>

\* solve_inner, lines 205-208: some clause is falsified; return None.
DpllFail ==
    /\ pc = "dpll_call"
    /\ dpll.satisfied_clauses # Len(dpll.formula.clauses)
    /\ dpll.unsatisfied_clauses > 0
    /\ pc' = "dpll_return"
    /\ UNCHANGED <<parser, model, formula, CdclVars, DpllVars, overflow_checks>>

DpllExploring ==
    /\ pc = "dpll_call"
    /\ dpll.satisfied_clauses # Len(dpll.formula.clauses)
    /\ dpll.unsatisfied_clauses = 0

\* search_unit_clause panics on the overflow in forced_assignment.
DpllOverflow ==
    /\ DpllExploring
    /\ \E checks \in Builds :
           /\ search_depends_on_checks(dpll)
           /\ search_unit_clause(dpll, checks)[1] = "Panic"
           /\ overflow_checks' = Some(checks)
           /\ dpll_result' = <<"Panic", search_unit_clause(dpll, checks)[2]>>
    /\ pc' = "cdcl_new"
    /\ UNCHANGED <<parser, model, formula, CdclVars, dpll, dpll_frames>>

\* solve_inner, lines 213-215: a unit clause forces a literal.
DpllUnit ==
    /\ DpllExploring
    /\ \E checks \in Builds :
           LET found == search_unit_clause(dpll, checks) IN
           /\ found[1] = "Some"
           /\ overflow_checks' = IF search_depends_on_checks(dpll) THEN Some(checks)
                                 ELSE overflow_checks
           /\ DpllStep(assign_literal(dpll, found[2]), "dpll_call")
           /\ dpll_frames' = Append(dpll_frames, [kind |-> "unit", literal |-> found[2],
                                                  entry |-> dpll])
    /\ UNCHANGED <<parser, model, formula, CdclVars>>

\* solve_inner, lines 224-227: no unit clause; try the first unassigned variable.
DpllBranch ==
    /\ DpllExploring
    /\ \E checks \in Builds :
           /\ search_unit_clause(dpll, checks) = <<"None">>
           /\ overflow_checks' = IF search_depends_on_checks(dpll) THEN Some(checks)
                                 ELSE overflow_checks
    /\ IF first_unassigned_ok(dpll)
       THEN LET literal == Literal_new(first_unassigned(dpll), TRUE) IN
            /\ DpllStep(assign_literal(dpll, literal), "dpll_call")
            /\ dpll_frames' = Append(dpll_frames, [kind |-> "first", literal |-> literal,
                                                   entry |-> dpll])
       ELSE /\ dpll_result' = <<"Panic", "first_unassigned">>
            /\ pc' = "cdcl_new"
            /\ UNCHANGED <<dpll, dpll_frames>>
    /\ UNCHANGED <<parser, model, formula, CdclVars>>

\* The outermost solve_inner returned None: solve returns None.
DpllFinishNone ==
    /\ pc = "dpll_return"
    /\ dpll_frames = <<>>
    /\ dpll_result' = <<"None">>
    /\ pc' = "cdcl_new"
    /\ UNCHANGED <<parser, model, formula, CdclVars, dpll, dpll_frames, overflow_checks>>

\* A recursive call returned None to lines 218-220 or 237-239: undo and return None.
DpllBacktrack ==
    /\ pc = "dpll_return"
    /\ dpll_frames # <<>>
    /\ Last(dpll_frames).kind \in {"unit", "second"}
    /\ DpllStep(pop_assignment(dpll), "dpll_return")
    /\ dpll_frames' = Front(dpll_frames)
    /\ UNCHANGED <<parser, model, formula, CdclVars, overflow_checks>>

\* The first branch returned None to lines 231-233: undo it and try the negation.
DpllSecondBranch ==
    /\ pc = "dpll_return"
    /\ dpll_frames # <<>>
    /\ Last(dpll_frames).kind = "first"
    /\ LET popped == pop_assignment(dpll)
           literal == Not(Last(dpll_frames).literal)
       IN  /\ DpllStep(IF popped.panicked # "" THEN popped
                       ELSE assign_literal(popped, literal), "dpll_call")
           /\ dpll_frames' = Append(Front(dpll_frames),
                                    [kind |-> "second", literal |-> literal,
                                     entry |-> Last(dpll_frames).entry])
    /\ UNCHANGED <<parser, model, formula, CdclVars, overflow_checks>>

\* The CDCL solver's fields as one record, and back.
Solver ==
    [tracker |-> tracker, decisions |-> decisions, decision_stack |-> decision_stack,
     frame |-> frame, score_heuristic |-> score_heuristic, panicked |-> ""]

\* A CDCL step that leaves the solver in state s: a panic ends the run.
CdclStep(s) ==
    /\ tracker' = s.tracker
    /\ decisions' = s.decisions
    /\ decision_stack' = s.decision_stack
    /\ frame' = s.frame
    /\ score_heuristic' = s.score_heuristic
    /\ IF s.panicked # ""
       THEN /\ cdcl_result' = <<"Panic", s.panicked>>
            /\ pc' = "done"
       ELSE /\ cdcl_result' = cdcl_result
            /\ pc' = "cdcl_loop"

CdclNew ==
    /\ pc = "cdcl_new"
    /\ \E nonces \in [Variables(formula.num_variables) -> Nonces] :
           CdclStep(CdclSolver_new(formula, nonces))
    /\ UNCHANGED <<parser, model, formula, DpllVars, overflow_checks>>

\* The condition of the while loop of solve.
Searching ==
    /\ pc = "cdcl_loop"
    /\ Cardinality(satisfied_clauses(tracker)) # num_clauses(tracker)

\* Lines 137-139: a falsified clause at level 0.
CdclUnsat ==
    /\ Searching
    /\ falsified_clauses(tracker) # {}
    /\ current_level(Solver) = 0
    /\ cdcl_result' = <<"None">>
    /\ pc' = "done"
    /\ UNCHANGED <<parser, model, formula, tracker, decisions, decision_stack, frame, score_heuristic,
                   DpllVars, overflow_checks>>

\* How many nonces the conflict branch draws: one per bump.
bumps(s) ==
    LET learned == clause_to_learn(s) IN
    IF learned.panicked = "" /\ lower_levels(s, learned.clause) # {}
    THEN Len(learned.clause) ELSE 0

\* Whether the conflict branch reaches a failing debug assertion.
conflict_depends_on_checks(s) ==
    LET learned == clause_to_learn(s) IN
    /\ learned.panicked = ""
    /\ lower_levels(s, learned.clause) = {}
    /\ Len(learned.clause) # 1

\* Lines 141-178: analyse the first falsified clause, learn, backjump.
CdclConflict ==
    /\ Searching
    /\ falsified_clauses(tracker) # {}
    /\ current_level(Solver) > 0
    /\ \E nonces \in [1..bumps(Solver) -> Nonces], checks \in Builds :
           /\ CdclStep(solve_conflict(Solver, nonces, checks))
           /\ overflow_checks' = IF conflict_depends_on_checks(Solver) THEN Some(checks)
                                 ELSE overflow_checks
    /\ UNCHANGED <<parser, model, formula, DpllVars>>

\* Lines 181-185: unit propagation.
CdclPropagate ==
    /\ Searching
    /\ falsified_clauses(tracker) = {}
    /\ unit_clauses(tracker) # {}
    /\ CdclStep(solve_propagate(Solver))
    /\ UNCHANGED <<parser, model, formula, DpllVars, overflow_checks>>

\* Lines 186-191: a new decision.
CdclDecide ==
    /\ Searching
    /\ falsified_clauses(tracker) = {}
    /\ unit_clauses(tracker) = {}
    /\ CdclStep(solve_decide(Solver))
    /\ UNCHANGED <<parser, model, formula, DpllVars, overflow_checks>>

\* Lines 194-202: every clause of the tracker is satisfied.
CdclSat ==
    /\ pc = "cdcl_loop"
    /\ Cardinality(satisfied_clauses(tracker)) = num_clauses(tracker)
    /\ LET assignment == fill_assignment(tracker.assignments) IN
       /\ cdcl_result' = IF Model_new_ok(formula, assignment)
                         THEN <<"Some", assignment>>
                         ELSE <<"Panic", "Model::new">>
       /\ model' = Model_new(formula, assignment)
    /\ pc' = "done"
    /\ UNCHANGED <<parser, formula, tracker, decisions, decision_stack, frame, score_heuristic,
                   DpllVars, overflow_checks>>

Next ==
    \/ DpllNew \/ DpllSucceed \/ DpllFail \/ DpllOverflow \/ DpllUnit \/ DpllBranch
    \/ DpllFinishNone \/ DpllBacktrack \/ DpllSecondBranch
    \/ CdclNew \/ CdclUnsat \/ CdclConflict \/ CdclPropagate \/ CdclDecide \/ CdclSat

Spec == Init /\ [][Next]_vars

----------------------------------------------------------------------------
(* Properties of the solvers. *)

TotalAssignments(cnf) == [Variables(cnf.num_variables) -> BOOLEAN]

Satisfies(cnf, assignment) ==
    \A c \in 1..Len(cnf.clauses) : ClauseSatisfied(cnf.clauses[c], assignment)

Satisfiable(cnf) == \E a \in TotalAssignments(cnf) : Satisfies(cnf, a)

\* The while loop of CdclSolver::solve has just been left: line 194.
CdclLoopExit ==
    /\ pc = "cdcl_loop"
    /\ Cardinality(satisfied_clauses(tracker)) = num_clauses(tracker)

\* C1: when CdclSolver::solve returns Some(model), the assignment has one entry
\* per variable and makes a literal of every clause of the original formula true;
\* the assertions of Model::new hold whenever the main loop is left, so they
\* never fire at the end of a CDCL run.
C1_CdclModelSatisfies ==
    /\ CdclLoopExit =>
           /\ DOMAIN fill_assignment(tracker.assignments) = Variables(formula.num_variables)
           /\ Satisfies(formula, fill_assignment(tracker.assignments))
    /\ cdcl_result # <<"Panic", "Model::new">>
    /\ (cdcl_result # Unbuilt /\ cdcl_result[1] = "Some") =>
           /\ DOMAIN cdcl_result[2] = Variables(formula.num_variables)
           /\ Satisfies(formula, cdcl_result[2])

\* solve returned a model after a conflict and a backjump, with a variable that
\* was never assigned filled in as true.
C1_Witness ==
    /\ pc = "done"
    /\ cdcl_result[1] = "Some"
    /\ num_clauses(tracker) > Len(formula.clauses)
    /\ Len(formula.clauses) >= 2
    /\ \E v \in Variables(formula.num_variables) : ~IsSome(tracker.assignments[v])

\* C2: when CdclSolver::solve returns None, no total assignment satisfies the
\* original formula, and a clause is falsified at decision level 0.
C2_CdclNoneIsUnsat ==
    cdcl_result = <<"None">> =>
        /\ ~Satisfiable(formula)
        /\ falsified_clauses(tracker) # {}
        /\ frame = <<>>

\* solve returned None after learning a clause from a conflict, on a formula
\* that has no empty clause.
C2_Witness ==
    /\ cdcl_result = <<"None">>
    /\ num_clauses(tracker) > Len(formula.clauses)
    /\ \A c \in 1..Len(formula.clauses) : Len(formula.clauses[c]) >= 2

\* solve_inner is at line 196 with every clause counted as satisfied.
DpllAllSatisfied ==
    /\ pc = "dpll_call"
    /\ dpll.satisfied_clauses = Len(dpll.formula.clauses)

\* C3: when DpllSolver::solve returns Some(model), every clause of the original
\* formula has a literal that is true under the model's assignment; the
\* assignment solve_inner returns always passes the assertions of Model::new.
C3_DpllModelSatisfies ==
    /\ DpllAllSatisfied => Satisfies(formula, fill_assignment(dpll.assignment))
    /\ dpll_result # <<"Panic", "Model::new">>
    /\ (dpll_result # Unbuilt /\ dpll_result[1] = "Some") =>
           Satisfies(formula, dpll_result[2])

\* solve returned a model after backtracking from a failed first branch.
C3_Witness ==
    /\ dpll_result # Unbuilt
    /\ dpll_result[1] = "Some"
    /\ \E i \in 1..Len(dpll_frames) : dpll_frames[i].kind = "second"
    /\ \E i \in 1..Len(dpll_frames) : dpll_frames[i].kind = "unit"

\* C4: for every formula whose literals are in range, whatever the number of
\* variables is relative to the number of clauses, DpllSolver::solve returns
\* None only if the formula is unsatisfiable and returns Some whenever it is
\* satisfiable.
C4_DpllSoundAndComplete ==
    dpll_result # Unbuilt =>
        /\ dpll_result = <<"None">> => ~Satisfiable(formula)
        /\ Satisfiable(formula) => dpll_result[1] = "Some"

\* C5: on every formula of the bounded set DpllSolver::solve and
\* CdclSolver::solve give the same verdict: both Some or both None.
C5_SameVerdict ==
    pc = "done" =>
        \/ (dpll_result[1] = "Some" /\ cdcl_result[1] = "Some")
        \/ (dpll_result = <<"None">> /\ cdcl_result = <<"None">>)

\* The conflict branch of CdclSolver::solve is about to call analyze.
ConflictPending ==
    /\ Searching
    /\ falsified_clauses(tracker) # {}
    /\ current_level(Solver) > 0

LevelOf(variable) == Unwrap(decisions[variable]).decision_level

\* C9: every clause analyze returns during a CDCL run has only assigned
\* variables, exactly one literal of the current level, which is the last one
\* (the UIP), no literal of level 0, every other literal at a level strictly
\* below the current one, and no variable twice.
C9_LearnedClauseShape ==
    (ConflictPending /\ clause_to_learn(Solver).panicked = "") =>
        LET clause == clause_to_learn(Solver).clause
            level == current_level(Solver)
        IN  /\ Len(clause) >= 1
            /\ \A i \in 1..Len(clause) :
                   /\ IsSome(tracker.assignments[clause[i].variable])
                   /\ IsSome(decisions[clause[i].variable])
                   /\ LevelOf(clause[i].variable) # 0
                   /\ i < Len(clause) => LevelOf(clause[i].variable) < level
                   /\ i = Len(clause) => LevelOf(clause[i].variable) = level
            /\ \A i, j \in 1..Len(clause) :
                   i # j => clause[i].variable # clause[j].variable

\* analyze is about to return a clause of two literals whose UIP is a
\* propagated variable, not the decision of the current level.
C9_Witness ==
    /\ ConflictPending
    /\ clause_to_learn(Solver).panicked = ""
    /\ LET clause == clause_to_learn(Solver).clause IN
       /\ Len(clause) >= 2
       /\ Unwrap(decisions[Last(clause).variable]).reason # Decision

\* C10: every clause analyze returns during a CDCL run is falsified under the
\* assignment in force at the call: each of its literals evaluates to false.
C10_LearnedClauseFalsified ==
    (ConflictPending /\ clause_to_learn(Solver).panicked = "") =>
        LET clause == clause_to_learn(Solver).clause IN
        \A i \in 1..Len(clause) :
            partial_value(clause[i], tracker.assignments) = Some(FALSE)

\* analyze is about to return a clause with a positive and a negative literal
\* at a decision level of at least 2.
C10_Witness ==
    /\ ConflictPending
    /\ current_level(Solver) >= 2
    /\ clause_to_learn(Solver).panicked = ""
    /\ LET clause == clause_to_learn(Solver).clause IN
       /\ \E i \in 1..Len(clause) : clause[i].positive
       /\ \E i \in 1..Len(clause) : ~clause[i].positive

\* The head of the while loop of CdclSolver::solve.
CdclLoopHead == pc = "cdcl_loop"

\* The number of frames opened at or before position i of decision_stack.
FramesUpTo(i) == Cardinality({k \in 1..Len(frame) : frame[k] + 1 <= i})

\* C11: at every iteration of the CDCL main loop the trail is well-formed:
\* every variable on decision_stack has its decision recorded; the literal at
\* frame[k-1] is a Decision of level k and the only one of that level; every
\* other literal is a UnitPropagation whose level is the number of frames
\* opened before it (0 before frame[0]); levels never decrease along the trail.
C11_TrailWellFormed ==
    CdclLoopHead =>
        /\ \A k \in 1..Len(frame) :
               /\ frame[k] < Len(decision_stack)
               /\ k > 1 => frame[k - 1] < frame[k]
        /\ \A i \in 1..Len(decision_stack) :
               LET variable == decision_stack[i].variable IN
               /\ IsSome(decisions[variable])
               /\ LevelOf(variable) = FramesUpTo(i)
               /\ IF \E k \in 1..Len(frame) : frame[k] + 1 = i
                  THEN /\ Unwrap(decisions[variable]).reason = Decision
                       /\ frame[LevelOf(variable)] + 1 = i
                  ELSE Unwrap(decisions[variable]).reason[1] = "UnitPropagation"
               /\ i > 1 => LevelOf(decision_stack[i - 1].variable) <= LevelOf(variable)
        /\ \A i, j \in 1..Len(decision_stack) :
               (/\ i # j
                /\ IsSome(decisions[decision_stack[i].variable])
                /\ IsSome(decisions[decision_stack[j].variable])
                /\ Unwrap(decisions[decision_stack[i].variable]).reason = Decision
                /\ Unwrap(decisions[decision_stack[j].variable]).reason = Decision)
               => LevelOf(decision_stack[i].variable) # LevelOf(decision_stack[j].variable)

\* The loop is entered with two open frames, a propagation at level 0 before
\* the first frame and a propagation inside a frame.
C11_Witness ==
    /\ CdclLoopHead
    /\ Len(frame) >= 2
    /\ frame[1] >= 1
    /\ \E k \in 1..Len(frame) :
           /\ frame[k] + 2 <= Len(decision_stack)
           /\ \A j \in 1..Len(frame) : frame[j] # frame[k] + 1

\* The decision branch of CdclSolver::solve is about to call top on a
\* non-empty ordered set.
DecisionPending ==
    /\ Searching
    /\ falsified_clauses(tracker) = {}
    /\ unit_clauses(tracker) = {}
    /\ top_ok(score_heuristic)

\* C12: VsidsScoring::top returns a variable whose score is greater than or
\* equal to the score of every variable present in the ordered set.
C12_TopIsGreatest ==
    DecisionPending =>
        \A x \in score_heuristic.btree :
            At(score_heuristic.scores, top(score_heuristic)).score >= x.score

\* The variables the tracker leaves unassigned.
Unassigned == {v \in Variables(tracker.num_variables) : ~IsSome(tracker.assignments[v])}

\* C13: at every iteration of the CDCL main loop the variables with an entry
\* in the VSIDS ordered set are exactly the unassigned variables, and each
\* entry carries the variable's current score and nonce (so a bump of an
\* assigned variable has changed its score without inserting it).
C13_SetIsUnassigned ==
    CdclLoopHead =>
        score_heuristic.btree = {set_entry(score_heuristic, v) : v \in Unassigned}

\* C14: the ordering of VSIDS set entries is a strict total order over
\* (score, nonce, variable): the entries of two distinct variables never
\* compare Equal, so that neither can stand for the other in the ordered set.
C14_StrictTotalOrder ==
    score_heuristic # Unbuilt =>
        \A u, v \in Variables(formula.num_variables) :
            u # v => cmp(set_entry(score_heuristic, u),
                         set_entry(score_heuristic, v)) # "Equal"

HasEmptyClause(cnf) == \E c \in 1..Len(cnf.clauses) : cnf.clauses[c] = <<>>

\* C15: on a formula that contains an empty clause CdclSolver::solve returns
\* None at once: the empty clause is in the Falsified bucket when the loop is
\* entered, the loop takes the UNSAT exit at level 0, and no literal is ever
\* pushed on the trail.
C15_CdclEmptyClauseUnsat ==
    HasEmptyClause(formula) =>
        /\ CdclLoopHead =>
               /\ decision_stack = <<>>
               /\ Searching
               /\ current_level(Solver) = 0
               /\ \E c \in falsified_clauses(tracker) :
                      original_clause(tracker, c) = <<>>
        /\ pc = "done" =>
               /\ cdcl_result = <<"None">>
               /\ decision_stack = <<>>

\* solve returned None on a formula that has an empty clause after a unit
\* clause, which was not propagated.
C15_Witness ==
    /\ pc = "done"
    /\ cdcl_result = <<"None">>
    /\ Len(formula.clauses) = 2
    /\ Len(formula.clauses[1]) = 1
    /\ formula.clauses[2] = <<>>
    /\ unit_clauses(tracker) # {}

\* C16: on a formula that contains an empty clause DpllSolver::solve returns
\* None at once, without assigning a literal and without aborting.  Stated
\* for the formulas on which the watch tables of DpllSolver::new are large
\* enough, so that the run gets as far as solve.
C16_DpllEmptyClauseUnsat ==
    (HasEmptyClause(formula) /\ dpll_result # <<"Panic", "watch index">>) =>
        /\ dpll # Unbuilt => dpll.assigned_stack = <<>>
        /\ dpll_result # Unbuilt => dpll_result = <<"None">>

AllTrue(cnf) == [v \in Variables(cnf.num_variables) |-> TRUE]

\* C17: on a formula of N variables and no clause both solvers return
\* Some(model) with every variable true; and whenever a solver returns a
\* model, every variable its search left unassigned is true in the model.
C17_UnassignedAreTrue ==
    /\ (formula.clauses = <<>> /\ dpll_result # Unbuilt) =>
           dpll_result = <<"Some", AllTrue(formula)>>
    /\ (formula.clauses = <<>> /\ pc = "done") =>
           cdcl_result = <<"Some", AllTrue(formula)>>
    /\ (dpll_result # Unbuilt /\ dpll_result[1] = "Some") =>
           \A v \in Variables(formula.num_variables) :
               ~IsSome(dpll.assignment[v]) => dpll_result[2][v]
    /\ (cdcl_result # Unbuilt /\ cdcl_result[1] = "Some") =>
           \A v \in Variables(formula.num_variables) :
               ~IsSome(tracker.assignments[v]) => cdcl_result[2][v]

\* Both solvers returned the all-true model on a formula of NumVars variables
\* and no clause.
C17_Witness ==
    /\ pc = "done"
    /\ formula.clauses = <<>>
    /\ formula.num_variables = NumVars
    /\ dpll_result = <<"Some", AllTrue(formula)>>
    /\ cdcl_result = <<"Some", AllTrue(formula)>>

UnitOnly(cnf) == \A c \in 1..Len(cnf.clauses) : Len(cnf.clauses[c]) = 1

\* C18: on a formula whose clauses all have exactly one literal
\* CdclSolver::solve reaches its verdict by propagation alone: the decision
\* branch is never taken, no literal has reason Decision, frame stays empty
\* (level 0) for the whole run, and the run ends with a verdict.
C18_UnitOnlyNoDecision ==
    (UnitOnly(formula) /\ tracker # Unbuilt) =>
        /\ frame = <<>>
        /\ \A v \in Variables(formula.num_variables) :
               IsSome(decisions[v]) => Unwrap(decisions[v]).reason # Decision
        /\ Searching => (falsified_clauses(tracker) # {} \/ unit_clauses(tracker) # {})
        /\ pc = "done" => cdcl_result[1] \in {"Some", "None"}

\* solve returned a model of a formula of two unit clauses over two
\* variables after propagating both.
C18_Witness ==
    /\ pc = "done"
    /\ UnitOnly(formula)
    /\ Len(formula.clauses) = 2
    /\ cdcl_result[1] = "Some"
    /\ Len(decision_stack) = 2

\* The clause list of the tracker starts with the clauses of the formula, in
\* their order; what was learned comes after them.
OriginalsFirst ==
    tracker # Unbuilt =>
        /\ tracker.num_variables = formula.num_variables
        /\ num_clauses(tracker) >= Len(formula.clauses)
        /\ \A i \in 1..Len(formula.clauses) :
               original_clause(tracker, i - 1) = formula.clauses[i]

\* C22: solving never changes the formula the solver was built from: no step
\* changes it, the clauses learned are only appended to the tracker's clause
\* list, behind the clauses of the formula, and the Model that
\* CdclSolver::solve returns holds exactly that formula (same clauses, same
\* order, same num_variables) with the assignment returned.
C22_FormulaUntouched ==
    /\ [](OriginalsFirst)
    /\ []((pc = "done" /\ cdcl_result[1] = "Some") =>
              model = <<"Model", [formula |-> formula,
                                  assignment |-> cdcl_result[2]]>>)
    /\ [][formula' = formula]_vars

\* solve returned a Model after it had learned at least one clause.
C22_Witness ==
    /\ pc = "done"
    /\ cdcl_result[1] = "Some"
    /\ model[1] = "Model"
    /\ num_clauses(tracker) > Len(formula.clauses)

\* The level the solver jumps back to for a learned clause at level L: the
\* greatest level below L among its literals, 0 for a clause of one literal.
BackjumpLevel(clause, L) ==
    IF Len(clause) = 1 THEN 0
    ELSE Max({-1} \cup ({LevelOf(clause[i].variable) : i \in 1..Len(clause)}
                           \cap 0..(L - 1)))

\* C25: a conflict at level L >= 1 makes the solver jump back to level b,
\* the greatest level strictly below L among the learned clause's literals,
\* or 0 when the clause has a single literal: after the pops current_level
\* is b < L, every trail literal of level <= b is still on the trail, in its
\* place and with its decision, and every literal of level > b is gone from
\* the trail, from decisions and from the tracker's assignment.
C25_Backjump ==
    [][(ConflictPending /\ pc' = "cdcl_loop") =>
          LET L == current_level(Solver)
              b == BackjumpLevel(clause_to_learn(Solver).clause, L)
              kept == {i \in 1..Len(decision_stack) :
                           LevelOf(decision_stack[i].variable) <= b}
          IN  /\ b < L
              /\ Len(frame') = b
              /\ frame' = SubSeq(frame, 1, b)
              /\ kept = 1..Len(decision_stack')
              /\ decision_stack' = SubSeq(decision_stack, 1, Cardinality(kept))
              /\ \A i \in 1..Len(decision_stack) :
                     LET variable == decision_stack[i].variable IN
                     IF i \in kept
                     THEN /\ decisions'[variable] = decisions[variable]
                          /\ tracker'.assignments[variable] = tracker.assignments[variable]
                     ELSE /\ decisions'[variable] = None
                          /\ tracker'.assignments[variable] = None]_vars

\* The solver has just jumped back to a level of at least 1: the clause
\* learned last is not yet propagated and a frame is still open.
C25_Witness ==
    /\ CdclLoopHead
    /\ num_clauses(tracker) > Len(formula.clauses)
    /\ (num_clauses(tracker) - 1) \in unit_clauses(tracker)
    /\ Len(frame) >= 1
    /\ Len(decision_stack) >= 2

\* C26: immediately after a backjump the learned clause, the last clause of
\* the tracker, is in the Unit bucket; the literal it forces is the one over
\* the UIP variable (the clause's only variable of the conflict level) with
\* the polarity opposite to the value that variable had at the conflict; and
\* no clause is in the Falsified bucket.
C26_LearnedClauseIsUnit ==
    [][(ConflictPending /\ pc' = "cdcl_loop") =>
          LET clause == clause_to_learn(Solver).clause
              index == num_clauses(tracker)
              uip == CHOOSE v \in Variables(tracker.num_variables) :
                         /\ \E i \in 1..Len(clause) : clause[i].variable = v
                         /\ LevelOf(v) = current_level(Solver)
          IN  /\ num_clauses(tracker') = index + 1
              /\ original_clause(tracker', index) = clause
              /\ index \in unit_clauses(tracker')
              /\ At(tracker'.clauses, index).stat.status = "Unit"
              /\ get_unit_clause_literal_ok(tracker', index)
              /\ get_unit_clause_literal(tracker', index) =
                     Literal_new(uip, ~Unwrap(tracker.assignments[uip]))
              /\ tracker'.assignments[uip] = None
              /\ falsified_clauses(tracker') = {}]_vars

\* The solver has just jumped back with a learned clause of two or more
\* literals that now forces a negative literal over an unassigned variable:
\* the UIP was true at the conflict.
C26_Witness ==
    /\ CdclLoopHead
    /\ num_clauses(tracker) > Len(formula.clauses)
    /\ falsified_clauses(tracker) = {}
    /\ LET index == num_clauses(tracker) - 1 IN
       /\ index \in unit_clauses(tracker)
       /\ Len(original_clause(tracker, index)) >= 2
       /\ ~get_unit_clause_literal(tracker, index).positive
       /\ get_unit_clause_literal(tracker, index).variable \in Unassigned

\* The literals pushed at the current decision level, as the tracker and
\* decisions see them.
CurrentLevelIntact ==
    LET trail == current_level_trail(Solver) IN
    /\ trail # <<>>
    /\ \A i \in 1..Len(trail) :
           /\ IsSome(decisions[trail[i].variable])
           /\ LevelOf(trail[i].variable) = current_level(Solver)
           /\ partial_value(trail[i], tracker.assignments) = Some(TRUE)
    /\ \A v \in Variables(tracker.num_variables) :
           (IsSome(decisions[v]) /\ LevelOf(v) = current_level(Solver))
               => \E i \in 1..Len(trail) : trail[i].variable = v

\* C27: no literal is pushed while the Falsified bucket is non-empty: a step
\* taken with a falsified clause is the conflict branch (or the return of
\* None at level 0), a step pushes at most one literal, and so a conflict is
\* analysed in the iteration right after the push that made it.  At the
\* analysis every falsified clause, the analysed one included, contains the
\* negation of the literal on top of the trail, and every literal of the
\* current level is still on the trail and assigned.
C27_ConflictAnalysedAtOnce ==
    /\ [][(pc = "cdcl_loop" /\ falsified_clauses(tracker) # {}) =>
             /\ Len(decision_stack') <= Len(decision_stack)
             /\ \/ (pc' = "done" /\ cdcl_result' = <<"None">>)
                \/ num_clauses(tracker') = num_clauses(tracker) + 1]_vars
    /\ [][(pc = "cdcl_loop" /\ pc' = "cdcl_loop") =>
             Len(decision_stack') <= Len(decision_stack) + 1]_vars
    /\ [](ConflictPending =>
             /\ \A index \in falsified_clauses(tracker) :
                    \E i \in 1..Len(original_clause(tracker, index)) :
                        original_clause(tracker, index)[i] = Not(Last(decision_stack))
             /\ CurrentLevelIntact)

\* A conflict is about to be analysed that the propagation of the third or a
\* later literal of the current level made.
C27_Witness ==
    /\ ConflictPending
    /\ Len(current_level_trail(Solver)) >= 3
    /\ Unwrap(decisions[Last(decision_stack).variable]).reason[1] = "UnitPropagation"

\* C28: every call of analyze that solve makes returns a clause: the counter
\* of unresolved literals of the current level is never decremented at 0, an
\* antecedent is only asked of a propagated variable (so its unwrap never
\* fails), level and value are only asked of assigned variables, and the walk
\* back over the current level's literals reaches a First UIP before it runs
\* out of literals.
C28_AnalyzeReturns ==
    ConflictPending =>
        /\ clause_to_learn(Solver).panicked
               \notin {"underflow", "antecedents", "unreachable", "level", "value"}
        /\ clause_to_learn(Solver).panicked = ""
        /\ Len(clause_to_learn(Solver).clause) >= 1

\* analyze is about to walk a current level of three or more literals back to
\* its second literal, a propagated variable, which is the First UIP; the
\* antecedents of a later literal are resolved on the way.
C28_Witness ==
    /\ ConflictPending
    /\ Len(current_level_trail(Solver)) >= 3
    /\ clause_to_learn(Solver).panicked = ""
    /\ Last(clause_to_learn(Solver).clause).variable =
           current_level_trail(Solver)[2].variable

\* The variables that have an entry in the ordered set of the heuristic.
SetVariables(heuristic) == {x.variable : x \in heuristic.btree}

\* The clauses of a tracker without the order of their live literals.
TrackerCounts(t) == [i \in 1..Len(t.clauses) |-> t.clauses[i].stat]

\* The reasons a literal can be pushed with.
Reasons == {Decision} \cup {UnitPropagation(index) : index \in ClauseIds(tracker)}

\* C29: in every state of the CDCL loop, for every literal l of an
\* unassigned variable and every reason r, push_decision(l, r) followed by
\* pop_decision() restores decisions, decision_stack, frame, the tracker's
\* assignment, clause counts and buckets, and the set of variables present
\* in the VSIDS ordered set; the frame pushed for r = Decision is popped
\* again, and no frame is touched for a propagation.
C29_PushPopRestores ==
    CdclLoopHead =>
        \A variable \in Unassigned, positive \in BOOLEAN, reason \in Reasons :
            LET pushed == push_decision(Solver, Literal_new(variable, positive), reason)
                popped == pop_decision(pushed)
            IN  /\ pushed.panicked = ""
                /\ popped.panicked = ""
                /\ Len(pushed.frame) = Len(frame) + (IF reason = Decision THEN 1 ELSE 0)
                /\ popped.frame = frame
                /\ popped.decisions = decisions
                /\ popped.decision_stack = decision_stack
                /\ popped.tracker.assignments = tracker.assignments
                /\ TrackerCounts(popped.tracker) = TrackerCounts(tracker)
                /\ popped.tracker.clause_cache = tracker.clause_cache
                /\ SetVariables(popped.score_heuristic) = SetVariables(score_heuristic)

\* The DPLL solver has been built and has not aborted.
DpllRunning == dpll # Unbuilt /\ dpll.panicked = ""

\* C31: in the DPLL engine, after every assign_literal and pop_assignment the
\* caches are exact: each clause's (satisfied, unsatisfied) is the number of
\* its literal occurrences that are true / false under the current
\* assignment, satisfied_clauses is the number of clauses with satisfied > 0
\* and unsatisfied_clauses the number of clauses whose unsatisfied count
\* equals their number of literals.
C31_DpllCachesExact ==
    (DpllRunning /\ dpll.assigned_stack # <<>>) =>
        LET clauses == dpll.formula.clauses IN
        /\ \A c \in 1..Len(clauses) :
               /\ dpll.clause_stats[c].satisfied
                      = Occurrences(clauses[c], dpll.assignment, Some(TRUE))
               /\ dpll.clause_stats[c].unsatisfied
                      = Occurrences(clauses[c], dpll.assignment, Some(FALSE))
        /\ dpll.satisfied_clauses
               = Cardinality({c \in 1..Len(clauses) : dpll.clause_stats[c].satisfied > 0})
        /\ dpll.unsatisfied_clauses
               = Cardinality({c \in 1..Len(clauses) :
                                  dpll.clause_stats[c].unsatisfied = Len(clauses[c])})


\* The literals assign_literal can be given: those of the unassigned variables.
DpllFreeLiterals ==
    {l \in Literals(dpll.formula.num_variables) : ~IsSome(dpll.assignment[l.variable])}

\* assign_literal(l) followed by pop_assignment() gives back the solver it
\* started from.
AssignPopRestores ==
    DpllRunning =>
        \A l \in DpllFreeLiterals :
            assign_literal(dpll, l).panicked = ""
                => pop_assignment(assign_literal(dpll, l)) = dpll

\* The call of solve_inner whose frame is on top returns None: it pops its
\* assignment and hands back the solver it was entered with.
ReturnsNoneRestores ==
    (/\ pc = "dpll_return"
     /\ dpll_frames # <<>>
     /\ Last(dpll_frames).kind \in {"unit", "second"})
        => dpll' = Last(dpll_frames).entry

\* C32: assign_literal(l) followed by pop_assignment() restores the assignment
\* vector, the assigned stack, every clause's pair of counts and both global
\* counters, also for clauses that repeat a literal or hold both polarities of a
\* variable; and whenever a call of solve_inner returns None the solver is equal
\* to the solver at the entry to that call (between the two branches of a
\* decision as well).
C32_AssignPopRoundTrip ==
    /\ []AssignPopRestores
    /\ [][ReturnsNoneRestores]_vars
    /\ [][(pc = "dpll_return" /\ dpll_frames # <<>> /\ Last(dpll_frames).kind = "first")
              => pop_assignment(dpll) = Last(dpll_frames).entry]_vars

\* A call that made two branches over a formula with a repeated literal and a
\* clause holding both polarities of a variable has returned None.
C32_Witness ==
    /\ pc = "dpll_return"
    /\ DpllRunning
    /\ dpll_frames # <<>>
    /\ Last(dpll_frames).kind = "second"
    /\ \E c \in 1..Len(dpll.formula.clauses) :
           \E i, j \in 1..Len(dpll.formula.clauses[c]) :
               /\ i # j
               /\ dpll.formula.clauses[c][i].variable = dpll.formula.clauses[c][j].variable
    /\ pop_assignment(dpll) = Last(dpll_frames).entry


\* How many times the literal occurs in the clause of index idx, and the clause
\* indices of a watch row that are idx.
LiteralCount(clause, literal) == Cardinality({i \in 1..Len(clause) : clause[i] = literal})

RowCount(row, idx) == Cardinality({i \in 1..Len(row) : row[i] = idx})

\* C33: DpllSolver::new builds a watch index that covers every literal: it does
\* not go out of bounds whatever the number of clauses is, both tables have a
\* row for every variable i < N, and the row of a literal l lists exactly the
\* indices of the clauses that contain l, once per occurrence.
C33_WatchCoversEveryLiteral ==
    dpll # Unbuilt =>
        /\ dpll.watch.panicked = ""
        /\ Len(dpll.watch.positive) >= dpll.formula.num_variables
        /\ Len(dpll.watch.negative) >= dpll.formula.num_variables
        /\ \A l \in Literals(dpll.formula.num_variables) :
               Dpll_Row_ok(dpll.watch, l) =>
                   \A idx \in 0..(Len(dpll.formula.clauses) - 1) :
                       RowCount(Dpll_Row(dpll.watch, l), idx)
                           = LiteralCount(At(dpll.formula.clauses, idx), l)


\* How many times learn_clause bumps the variable for the clause being learned:
\* once per literal over it when the clause has more than one literal.
BumpsOf(clause, variable) ==
    IF Len(clause) > 1
    THEN Cardinality({i \in 1..Len(clause) : clause[i].variable = variable})
    ELSE 0

\* The scores after one conflict iteration that bumped as BumpsOf tells, each
\* bump adding the current rate, and decayed once (in the representation of the
\* scores, one decay multiplies current_rate by DecayDen and a score by DecayNum).
ScoredOnce(h, clause) ==
    [i \in 1..Len(h.scores) |->
        (h.scores[i].score + BumpsOf(clause, i - 1) * h.current_rate) * DecayNum]

\* C34: in every conflict iteration decay is invoked exactly once, bump_score
\* exactly once per literal of the learned clause when the clause has more than
\* one literal and not at all when it is unit; and the learned clause has no
\* literal below the current level exactly when its length is 1.
C34_OneDecayPerConflict ==
    /\ [](ConflictPending =>
              LET learned == clause_to_learn(Solver) IN
              /\ learned.panicked = ""
              /\ (lower_levels(Solver, learned.clause) = {} <=> Len(learned.clause) = 1))
    /\ [][(ConflictPending /\ pc' = "cdcl_loop") =>
              LET clause == clause_to_learn(Solver).clause IN
              /\ score_heuristic'.current_rate = score_heuristic.current_rate * DecayDen
              /\ [i \in 1..Len(score_heuristic'.scores) |-> score_heuristic'.scores[i].score]
                     = ScoredOnce(score_heuristic, clause)]_vars

\* The first conflict is behind and it learned a clause of two literals: the
\* rate has decayed once and the two variables of the clause carry their
\* occurrence count plus one bump, decayed once.
C34_Witness ==
    /\ CdclLoopHead
    /\ score_heuristic.current_rate = DecayDen
    /\ num_clauses(tracker) = Len(formula.clauses) + 1
    /\ LET clause == original_clause(tracker, num_clauses(tracker) - 1) IN
       /\ Len(clause) = 2
       /\ \A i \in 1..Len(clause) :
              LET variable == clause[i].variable
                  occurrences == Cardinality({<<c, k>> \in (1..Len(formula.clauses)) \X (1..MaxLen) :
                                                 /\ k <= Len(formula.clauses[c])
                                                 /\ formula.clauses[c][k].variable = variable})
              IN  At(score_heuristic.scores, variable).score = (occurrences + 1) * DecayNum


\* C35: CdclSolver::solve ends, whatever the nonces drawn, in one of its two
\* returns and never aborts: what it hands back is None, from the conflict exit
\* at decision level 0, or Some, from the exit of the loop with every clause
\* satisfied.
C35_CdclEndsInAReturn ==
    cdcl_result # Unbuilt =>
        \/ /\ cdcl_result = <<"None">>
           /\ falsified_clauses(tracker) # {}
           /\ current_level(Solver) = 0
        \/ /\ cdcl_result[1] = "Some"
           /\ Cardinality(satisfied_clauses(tracker)) = num_clauses(tracker)


\* The clauses the tracker holds behind those of the formula: the learned ones.
LearnedClauses ==
    {original_clause(tracker, idx) : idx \in Len(formula.clauses)..(num_clauses(tracker) - 1)}

\* Every total assignment that satisfies the formula satisfies the clause.
Entails(cnf, clause) ==
    \A a \in TotalAssignments(cnf) : Satisfies(cnf, a) => ClauseSatisfied(clause, a)

\* C36: every clause the CDCL solver learns is a logical consequence of the
\* original formula.
C36_LearnedClausesEntailed ==
    tracker # Unbuilt => \A clause \in LearnedClauses : Entails(formula, clause)

\* A satisfiable formula from which the solver has learned a clause of two
\* literals.
C36_Witness ==
    /\ CdclLoopHead
    /\ Satisfiable(formula)
    /\ \E clause \in LearnedClauses : Len(clause) = 2


\* The positions of decision_stack that hold a literal over the variable.
TrailPositions(variable) ==
    {i \in 1..Len(decision_stack) : decision_stack[i].variable = variable}

\* Three of the four views of "x is assigned" agree: decision_stack, decisions
\* and the tracker's assignment, whose value is the polarity on the trail.
TrailViewsAgree ==
    \A x \in Variables(formula.num_variables) :
        /\ Cardinality(TrailPositions(x)) <= 1
        /\ TrailPositions(x) # {} <=> IsSome(decisions[x])
        /\ IsSome(decisions[x]) <=> IsSome(tracker.assignments[x])
        /\ \A i \in TrailPositions(x) :
               tracker.assignments[x] = Some(decision_stack[i].positive)

\* C37: at every iteration of the main loop the four views of the assignment
\* agree: a variable x is on decision_stack (exactly once) iff decisions[x] is
\* Some iff the tracker's assignment of x is Some iff x has no entry in the
\* VSIDS ordered set; and the tracker's value of x is the polarity of its
\* literal on the trail.
C37_FourViewsAgree ==
    CdclLoopHead =>
        /\ TrailViewsAgree
        /\ \A x \in Variables(formula.num_variables) :
               IsSome(tracker.assignments[x]) <=> x \notin SetVariables(score_heuristic)


\* The position of the variable's literal on decision_stack.
TrailPosition(variable) == CHOOSE i \in TrailPositions(variable) : TRUE

\* The trail variables whose reason is a unit propagation.
Propagated ==
    {x \in Variables(formula.num_variables) :
         /\ TrailPositions(x) # {}
         /\ IsSome(decisions[x])
         /\ Unwrap(decisions[x]).reason[1] = "UnitPropagation"}

\* C38: for every variable x on the trail whose reason is UnitPropagation(c),
\* the clause c contains the literal of x that is on the trail (once), that literal is
\* true, every other literal of c is false, and the variables of those other
\* literals were assigned before x on the trail, at a level not above the level
\* of x.  CdclConflict ends with the backjump, so the loop heads include the
\* states right after one.
C38_ReasonClauseIsUnit ==
    CdclLoopHead =>
        \A x \in Propagated :
            LET literal == decision_stack[TrailPosition(x)]
                c == Unwrap(decisions[x]).reason[2]
                clause == original_clause(tracker, c)
            IN  /\ c \in ClauseIds(tracker)
                /\ Cardinality({i \in 1..Len(clause) : clause[i] = literal}) = 1
                /\ partial_value(literal, tracker.assignments) = Some(TRUE)
                /\ \A i \in 1..Len(clause) :
                       clause[i] # literal =>
                           /\ partial_value(clause[i], tracker.assignments) = Some(FALSE)
                           /\ TrailPositions(clause[i].variable) # {}
                           /\ TrailPosition(clause[i].variable) < TrailPosition(x)
                           /\ LevelOf(clause[i].variable) <= LevelOf(x)

\* After a backjump to a level of at least 1 the trail still holds a literal
\* propagated by a clause of two or more literals.
C38_Witness ==
    /\ CdclLoopHead
    /\ num_clauses(tracker) > Len(formula.clauses)
    /\ Len(frame) >= 1
    /\ \E x \in Propagated :
           Len(original_clause(tracker, Unwrap(decisions[x]).reason[2])) >= 2


\* The branching step of solve: no clause is falsified, none is unit, and some
\* clause is not yet satisfied.
BranchingStep ==
    /\ Searching
    /\ falsified_clauses(tracker) = {}
    /\ unit_clauses(tracker) = {}

\* C39: whenever the main loop reaches the branching step, at least one
\* variable is unassigned and present in the VSIDS ordered set, so that top()
\* returns an unassigned variable instead of aborting on an empty set; and the
\* literal pushed by the step is that variable with positive polarity, as a
\* Decision.
C39_BranchingFindsAVariable ==
    /\ [](BranchingStep =>
              /\ Unassigned \cap SetVariables(score_heuristic) # {}
              /\ top_ok(score_heuristic)
              /\ top(score_heuristic) \in Unassigned)
    /\ [][BranchingStep =>
              /\ pc' = "cdcl_loop"
              /\ decision_stack' = Append(decision_stack,
                                          Literal_new(top(score_heuristic), TRUE))
              /\ Unwrap(decisions'[top(score_heuristic)]).reason = Decision]_vars

----------------------------------------------------------------------------
(* Model::new called directly, on any formula and any Vec<bool> of up to   *)
(* NumVars + 1 entries.                                                    *)

\* A Vec<bool> of k entries, indexed from 0.
Assignments == UNION {[0..(k - 1) -> BOOLEAN] : k \in 0..(NumVars + 1)}

ModelInit ==
    /\ pc = "model"
    /\ formula \in Formulas
    /\ tracker = Unbuilt
    /\ decisions = Unbuilt
    /\ decision_stack = Unbuilt
    /\ frame = Unbuilt
    /\ score_heuristic = Unbuilt
    /\ cdcl_result = Unbuilt
    /\ dpll = Unbuilt
    /\ dpll_frames = Unbuilt
    /\ dpll_result = Unbuilt
    /\ overflow_checks = None
    /\ model = Unbuilt
    /\ parser = Unbuilt

ModelNew ==
    /\ pc = "model"
    /\ \E assignment \in Assignments : model' = Model_new(formula, assignment)
    /\ pc' = "done"
    /\ UNCHANGED <<parser, formula, CdclVars, DpllVars, overflow_checks>>

SpecModel == ModelInit /\ [][ModelNew]_vars

\* C19: Model::new aborts unless the assignment has exactly num_variables
\* entries and every clause of the formula has a literal that is true under
\* it: whenever it returns a Model, the Model holds the given formula and an
\* assignment of that length that satisfies every clause.
C19_ModelNewChecks ==
    (model # Unbuilt /\ model[1] = "Model") =>
        /\ model[2].formula = formula
        /\ Cardinality(DOMAIN model[2].assignment) = formula.num_variables
        /\ DOMAIN model[2].assignment = Variables(formula.num_variables)
        /\ \A c \in 1..Len(formula.clauses) :
               \E i \in 1..Len(formula.clauses[c]) :
                   LET literal == formula.clauses[c][i] IN
                   model[2].assignment[literal.variable] = literal.positive

\* Model::new returned a Model of a formula of two clauses over two or more
\* variables, with a variable set to false.
C19_Witness ==
    /\ model # Unbuilt
    /\ model[1] = "Model"
    /\ Len(formula.clauses) = 2
    /\ formula.num_variables >= 2
    /\ \E v \in Variables(formula.num_variables) : ~model[2].assignment[v]

----------------------------------------------------------------------------
(* parse_file on a file of up to MaxFileLines lines. *)

MaxFileLines == 3

RECURSIVE Join(_)
\* The tokens with one space between them.
Join(tokens) ==
    IF Len(tokens) = 1 THEN tokens[1]
    ELSE tokens[1] \o <<" ">> \o Join(Tail(tokens))

P == <<"p">>
PQ == <<"p", "q">>
CNF == <<"c", "n", "f">>
DNF == <<"d", "n", "f">>
Zero == <<"0">>
One == <<"1">>
Two == <<"2">>
Three == <<"3">>
Minus(token) == <<"-">> \o token
\* 2^32 + 1 and 2^64.
Above32 == <<"4", "2", "9", "4", "9", "6", "7", "2", "9", "7">>
Above64 == <<"1", "8", "4", "4", "6", "7", "4", "4", "0", "7",
             "3", "7", "0", "9", "5", "5", "1", "6", "1", "6">>

ProblemLines ==
    {Join(<<P, CNF, Two, Two>>),
     Join(<<P, CNF, One, One>>),
     Join(<<P, CNF, Two, One>>) \o <<" ">>,
     Join(<<P>>),
     Join(<<PQ>>),
     Join(<<P, CNF>>),
     Join(<<P, CNF, Two>>),
     Join(<<P, DNF, Two, One>>),
     Join(<<PQ, DNF, Two, One>>),
     Join(<<PQ, CNF, Two, One, One>>),
     Join(<<PQ, DNF, Two, One, One>>),
     Join(<<P, CNF, <<"x">>, One>>),
     Join(<<P, CNF, Above32, One>>)}

ClauseLines ==
    {Join(<<One, Minus(Two), Zero>>),
     Join(<<Two, Zero>>),
     Join(<<Minus(Three), Zero>>),
     Join(<<Zero>>),
     Join(<<One, Two>>),
     Join(<<<<"x">>, Zero>>),
     Join(<<Zero, Zero>>),
     Join(<<Minus(One), Above32, Zero>>),
     Join(<<Above64, Zero>>),
     Join(<<<<"+">> \o One, Zero>>),
     Join(<<One, <<>>, Zero>>),
     <<" ">> \o Join(<<Minus(One), Zero>>) \o <<" ">>,
     Join(<<<<"c">>, One, Zero>>),
     <<>>}

Files == SeqsUpTo(ProblemLines \cup ClauseLines, MaxFileLines)

ParserInit ==
    /\ pc = "parse_file"
    /\ \E lines \in Files :
           parser = [lines |-> lines, splitted |-> <<>>, cnf |-> None,
                     expected |-> <<>>, line |-> None, result |-> None]
    /\ formula = Unbuilt
    /\ tracker = Unbuilt
    /\ decisions = Unbuilt
    /\ decision_stack = Unbuilt
    /\ frame = Unbuilt
    /\ score_heuristic = Unbuilt
    /\ cdcl_result = Unbuilt
    /\ dpll = Unbuilt
    /\ dpll_frames = Unbuilt
    /\ dpll_result = Unbuilt
    /\ overflow_checks = None
    /\ model = Unbuilt

\* parse_file up to Cnf::new: the lines before the first one that starts
\* with 'p' are skipped and that line is read as the problem line.
ParseProblemLine ==
    /\ pc = "parse_file"
    /\ LET lines == skip_while(parser.lines) IN
       IF lines = <<>>
       THEN /\ parser' = [parser EXCEPT !.lines = <<>>,
                                        !.result = Err("MalformedProblemDefinition")]
            /\ pc' = "parsed"
       ELSE LET splitted == split(trim(Head(lines)))
                ensure == problem_line_ensure(splitted)
                numbers == problem_line_numbers(splitted)
                read == [parser EXCEPT !.lines = Tail(lines), !.splitted = splitted]
            IN  IF ensure = "panic"
                THEN /\ parser' = [read EXCEPT !.result = <<"Panic", "index out of bounds">>]
                     /\ pc' = "parsed"
                ELSE IF ensure = "fail"
                THEN /\ parser' = [read EXCEPT !.result = Err("MalformedProblemDefinition")]
                     /\ pc' = "parsed"
                ELSE IF ~is_ok(numbers)
                THEN /\ parser' = [read EXCEPT !.result = numbers]
                     /\ pc' = "parsed"
                ELSE /\ parser' = [read EXCEPT !.cnf = Some(Cnf_new(numbers[2].num_variables)),
                                               !.expected = numbers[2].expected]
                     /\ pc' = "parse_lines"
    /\ UNCHANGED <<formula, CdclVars, DpllVars, overflow_checks, model>>

\* One round of the loop over the remaining lines.
ParseLine ==
    /\ pc = "parse_lines"
    /\ parser.lines # <<>>
    /\ LET trimmed == trim(Head(parser.lines)) IN
       IF trimmed = <<>> \/ starts_with(trimmed, "c")
       THEN /\ parser' = [parser EXCEPT !.lines = Tail(@)]
            /\ pc' = pc
       ELSE LET line == parse_line(trimmed)
                read == [parser EXCEPT !.lines = Tail(@), !.line = Some(line)]
            IN  IF ~is_ok(line.result)
                THEN /\ parser' = [read EXCEPT !.result = line.result]
                     /\ pc' = "parsed"
                ELSE IF ~Cnf_add_clause_ok(Unwrap(parser.cnf), line.result[2])
                THEN /\ parser' = [read EXCEPT !.result = <<"Panic", "Cnf::add_clause">>]
                     /\ pc' = "parsed"
                ELSE /\ parser' = [read EXCEPT !.cnf = Some(Cnf_add_clause(Unwrap(@),
                                                                           line.result[2]))]
                     /\ pc' = pc
    /\ UNCHANGED <<formula, CdclVars, DpllVars, overflow_checks, model>>

\* The end of parse_file, after the last line.
ParseFinish ==
    /\ pc = "parse_lines"
    /\ parser.lines = <<>>
    /\ parser' = [parser EXCEPT !.result =
                      IF clause_count_matches(Unwrap(parser.cnf), parser.expected)
                      THEN Ok(Unwrap(parser.cnf))
                      ELSE Err("ClauseCountMismatch")]
    /\ pc' = "parsed"
    /\ UNCHANGED <<formula, CdclVars, DpllVars, overflow_checks, model>>

ParserNext == ParseProblemLine \/ ParseLine \/ ParseFinish

SpecParser == ParserInit /\ [][ParserNext]_vars

----------------------------------------------------------------------------
(* Properties of the parser. *)

\* The identifier of a literal token: what follows the optional '-', read
\* as a usize.
Identifier(token) ==
    usize_from_str(IF starts_with(token, "-") THEN Tail(token) ELSE token)

\* The numeral stands for a number greater than n.
Exceeds(numeral, n) == Len(numeral) > 9 \/ NumeralValue(numeral) > n

\* The tokens of the clause line read last, each with what
\* str::parse::<Literal> returned for it.
ParsedTokens ==
    IF parser = Unbuilt \/ parser.line = None THEN {}
    ELSE {<<Unwrap(parser.line).tokens[i], Unwrap(parser.line).parsed[i]>> :
              i \in 1..Len(Unwrap(parser.line).parsed)}

WellFormedProblemLine(splitted) ==
    /\ Len(splitted) = 4
    /\ splitted[1] = <<"p">>
    /\ splitted[2] = <<"c", "n", "f">>

\* C24: parse_file accepts a problem line (goes on to build the Cnf and read
\* the clause lines) only if it has exactly four tokens with 'p' first and
\* 'cnf' second; for any other problem line it returns
\* MalformedProblemDefinition, and neither accepts it nor aborts.
C24_ProblemLineChecked ==
    (parser # Unbuilt /\ parser.splitted # <<>>) =>
        IF WellFormedProblemLine(parser.splitted)
        THEN parser.cnf = None => parser.result # None
        ELSE /\ parser.cnf = None
             /\ parser.result = Err("MalformedProblemDefinition")

====
